---- MODULE Spec2Model ----
(***************************************************************************)
(* Model of src/Practica1.py: the library catalogue (books, magazines,     *)
(* movies), the patrons (socios, ocasionales) and the loan / consultation  *)
(* / return / renew operations of the interactive menus, together with    *)
(* the datos.json snapshot written by guardar_datos and read at start.     *)
(*                                                                         *)
(* One action models one complete menu operation (one call of a           *)
(* mostrar_menu_* / configurar_* function with the operator's answers as   *)
(* inputs).  An operation that raises an uncaught exception ends the       *)
(* process: its result is "fallo", the in-memory library is lost and the   *)
(* next step is a new start of the program (Iniciar), which loads          *)
(* datos.json.                                                             *)
(***************************************************************************)
EXTENDS Integers, Sequences, FiniteSets, TLC

VARIABLES biblioteca, datos_json, hoy, ultima

vars == <<biblioteca, datos_json, hoy, ultima>>

(***************************************************************************)
(* Bounds of the model.                                                    *)
(***************************************************************************)
MaxPrestamos == 3
MaxPrestamosCupo == 4
MaxPrestamosLibro == 2
MaxConsultas == 1
MaxEjemplares == 3
MaxRecursos == 1
MaxSocios == 2

(***************************************************************************)
(* Program constants.                                                      *)
(***************************************************************************)
None == -1
Hora == 0
MaxPrestados == 3
DiasPrestamo == 7
MaxRenovaciones == 3
DiasVentana == 3
DiasRenovacionPelicula == 2
MaxEjemplaresPelicula == 2

(***************************************************************************)
(* Generic helpers on dictionaries (functions) and lists (sequences).      *)
(***************************************************************************)
Poner(d, k, v) == [x \in (DOMAIN d) \cup {k} |-> IF x = k THEN v ELSE d[x]]

Quitar(d, k) == [x \in (DOMAIN d) \ {k} |-> d[x]]

Vacio == [x \in {} |-> None]

QuitarDeLista(s, v) ==
    LET pos == {i \in 1..Len(s) : s[i] = v}
    IN  IF pos = {} THEN s
        ELSE LET p == CHOOSE i \in pos : \A j \in pos : i <= j
             IN  [i \in 1..(Len(s) - 1) |-> IF i < p THEN s[i] ELSE s[i + 1]]

QuitarPosicion(s, p) ==
    [i \in 1..(Len(s) - 1) |-> IF i < p THEN s[i] ELSE s[i + 1]]

(***************************************************************************)
(* Dates.  A stored date is the string strftime("%Y-%m-%d") writes, kept   *)
(* as the sequence of its character codes; a day is the proleptic          *)
(* Gregorian ordinal of datetime; FechaNone is None in a date field.       *)
(***************************************************************************)
FechaNone == <<>>

Guion == 45

Cero == 48

EsBisiesto(a) == a % 4 = 0 /\ (a % 100 # 0 \/ a % 400 = 0)

DiasDelMes(a, m) ==
    IF m = 2 THEN (IF EsBisiesto(a) THEN 29 ELSE 28)
    ELSE IF m \in {4, 6, 9, 11} THEN 30 ELSE 31

DiasAntesDeAnio(a) ==
    LET y == a - 1 IN y * 365 + (y \div 4) - (y \div 100) + (y \div 400)

DiasAntesDeMes(a, m) ==
    <<0, 31, 59, 90, 120, 151, 181, 212, 243, 273, 304, 334>>[m]
        + (IF m > 2 /\ EsBisiesto(a) THEN 1 ELSE 0)

\* datetime(a, m, d).toordinal()
Ordinal(a, m, d) == DiasAntesDeAnio(a) + DiasAntesDeMes(a, m) + d

\* datetime.fromordinal(n): year, month, day, as _ord2ymd computes them from
\* the 400-, 100-, 4- and 1-year cycles.
FechaDeOrdinal(n) ==
    LET n0 == n - 1
        n400 == n0 \div 146097
        r400 == n0 % 146097
        n100 == r400 \div 36524
        r100 == r400 % 36524
        n4 == r100 \div 1461
        r4 == r100 % 1461
        n1 == r4 \div 365
        r1 == r4 % 365
        y == n400 * 400 + n100 * 100 + n4 * 4 + n1 + 1
    IN  IF n1 = 4 \/ n100 = 4 THEN [anio |-> y - 1, mes |-> 12, dia |-> 31]
        ELSE LET m0 == (r1 + 50) \div 32
                 m == IF DiasAntesDeMes(y, m0) > r1 THEN m0 - 1 ELSE m0
             IN  [anio |-> y, mes |-> m, dia |-> r1 - DiasAntesDeMes(y, m) + 1]

\* The decimal digits of n, without padding (%Y).
RECURSIVE Decimal(_)
Decimal(n) ==
    IF n < 10 THEN <<Cero + n>> ELSE Append(Decimal(n \div 10), Cero + (n % 10))

\* Two digits written without the padding.
DosDigitos_sin_relleno(n) == Decimal(n)

\* Two digits, zero padded (%m, %d).
DosDigitos(n) == IF n < 10 THEN <<Cero>> \o Decimal(n) ELSE Decimal(n)

\* datetime.fromordinal(n).strftime("%Y-%m-%d")
strftime(n) ==
    LET f == FechaDeOrdinal(n)
    IN  Decimal(f.anio) \o <<Guion>> \o DosDigitos(f.mes) \o <<Guion>> \o DosDigitos(f.dia)

Digito(s, i) == s[i] - Cero

\* datetime.strptime(s, "%Y-%m-%d").toordinal(): %Y reads four digits, %m
\* and %d read one or two.
strptime(s) ==
    LET a == Digito(s, 1) * 1000 + Digito(s, 2) * 100 + Digito(s, 3) * 10 + Digito(s, 4)
        g == IF s[7] = Guion THEN 7 ELSE 8
        m == IF g = 7 THEN Digito(s, 6) ELSE Digito(s, 6) * 10 + Digito(s, 7)
        d == IF Len(s) = g + 1 THEN Digito(s, g + 1)
             ELSE Digito(s, g + 1) * 10 + Digito(s, g + 2)
    IN  Ordinal(a, m, d)

\* s < t on str: lexicographic on the character codes.
RECURSIVE CadenaMenorDesde(_, _, _)
CadenaMenorDesde(s, t, i) ==
    IF i > Len(t) THEN FALSE
    ELSE IF i > Len(s) THEN TRUE
    ELSE IF s[i] # t[i] THEN s[i] < t[i]
    ELSE CadenaMenorDesde(s, t, i + 1)

CadenaMenor(s, t) == CadenaMenorDesde(s, t, 1)

\* configurar_fecha_manual with the answer d/m/a: re-asked when a field is
\* out of range ("rechazada"), ValueError of datetime() when the month has
\* no such day ("fallo"), else the date string.
configurar_fecha_manual(d, m, a) ==
    IF m < 1 \/ m > 12 \/ d < 1 \/ d > 31 \/ a < 1900 \/ a > 2025
    THEN [res |-> "rechazada", fecha |-> FechaNone]
    ELSE IF d > DiasDelMes(a, m) THEN [res |-> "fallo", fecha |-> FechaNone]
    ELSE [res |-> "ok", fecha |-> strftime(Ordinal(a, m, d))]

(***************************************************************************)
(* Biblioteca.__init__                                                     *)
(***************************************************************************)
Biblioteca ==
    [libros |-> Vacio, revistas |-> Vacio, peliculas |-> Vacio,
     prestamos |-> Vacio, consultas |-> Vacio,
     socios |-> Vacio, ocasionales |-> Vacio,
     nro_prestamo |-> 0, nro_id_libro |-> 0, nro_id_revista |-> 0,
     nro_id_pelicula |-> 0, nro_socio |-> 0, nro_consulta |-> 0]

(***************************************************************************)
(* Dataclasses.                                                            *)
(***************************************************************************)
EjemplarLibro(nro) == [nro_ejemplar |-> nro, estado_accion |-> ""]

PeliculaBiblioteca == [tipo |-> "C", estado |-> FALSE, ajeno |-> FALSE]

PeliculaPrestamo == [tipo |-> "P", estado |-> FALSE, ajeno |-> FALSE]

Socio(nro) ==
    [nro_socio |-> nro, ejemplares_prestados |-> <<>>,
     recurso_en_consulta |-> None,
     fecha_solicitud_consulta |-> FechaNone, hora_solicitud_consulta |-> None]

Ocasional ==
    [recurso_en_consulta |-> None,
     fecha_solicitud_consulta |-> FechaNone, hora_solicitud_consulta |-> None]

Prestamo(nif, ref, dia, nro_socio, fecha_max) ==
    [nif |-> nif, id_recurso |-> ref, fecha_solicitud |-> dia,
     nro_socio |-> nro_socio, fecha_max_devolucion |-> fecha_max,
     fecha_devuelto |-> FechaNone, renovacion |-> 0]

generar_consulta(nif, ref, fecha) ==
    [nif |-> nif, id_recurso |-> ref, fecha_solicitud |-> fecha,
     hora_devolucion |-> None]

\* The resource dictionary stored in a record (ejemplar.__dict__ of a book
\* copy, revista.__dict__, pelicula.__dict__): tipo tells which keys it has.
RefLibro(id, nro) == [tipo |-> "libro", id |-> id, nro |-> nro]

RefRevista(id) == [tipo |-> "revista", id |-> id, nro |-> 0]

RefPelicula(id) == [tipo |-> "pelicula", id |-> id, nro |-> 0]

(***************************************************************************)
(* Result of one operation: the library it leaves in memory, the outcome   *)
(* it reports and whether it ended with guardar_datos().                   *)
(***************************************************************************)
Res(b, res, guardar) == [b |-> b, res |-> res, guardar |-> guardar]

Fallo(b) == Res(b, "fallo", FALSE)

(***************************************************************************)
(* Lookups.  A title stands for the whole natural key of a resource        *)
(* (title/author/publisher, name/date/publisher, title/date).              *)
(***************************************************************************)
Menor(S) == IF S = {} THEN None ELSE CHOOSE x \in S : \A y \in S : x <= y

\* The search that finds no book.
buscar_libro_ninguno(b, t) == None

buscar_libro(b, t) == Menor({i \in DOMAIN b.libros : b.libros[i].titulo = t})

buscar_revista(b, t) == Menor({i \in DOMAIN b.revistas : b.revistas[i].nombre = t})

buscar_pelicula(b, t) == Menor({i \in DOMAIN b.peliculas : b.peliculas[i].titulo = t})

\* encontrar_recurso: the id selected for the given kind and title, or None.
encontrar_recurso(b, tipo, t) ==
    IF tipo = "libro" THEN buscar_libro(b, t)
    ELSE IF tipo = "revista" THEN buscar_revista(b, t)
    ELSE buscar_pelicula(b, t)

\* The loan check that returns the first free copy it meets.
LibroPrestable_primero(ejs, i, disponible, en_consulta) ==
    LET libres == {j \in i..Len(ejs) : ejs[j].estado_accion = ""}
    IN  IF libres = {} THEN 0 ELSE CHOOSE j \in libres : \A k \in libres : j <= k

(***************************************************************************)
(* comprobar_estado_recurso: position (1-based) of the copy it returns in  *)
(* the resource's list of copies, 0 for None.                              *)
(***************************************************************************)
RECURSIVE LibroPrestable(_, _, _, _)
LibroPrestable(ejs, i, disponible, en_consulta) ==
    IF i > Len(ejs) THEN 0
    ELSE IF ejs[i].estado_accion = "" /\ ~disponible
         THEN LibroPrestable(ejs, i + 1, TRUE, en_consulta)
    ELSE IF ejs[i].estado_accion = "Consulta"
         THEN LibroPrestable(ejs, i + 1, disponible, TRUE)
    ELSE IF ejs[i].estado_accion = "" /\ (disponible \/ en_consulta)
         THEN i
    ELSE LibroPrestable(ejs, i + 1, disponible, en_consulta)

PrimeroDeTipo(ejs, tipo) == Menor({i \in 1..Len(ejs) : ejs[i].tipo = tipo})

PeliculaPrestable(ejs) ==
    LET i == PrimeroDeTipo(ejs, "P")
    IN  IF i = None THEN 0 ELSE IF ejs[i].estado THEN 0 ELSE i

\* The consultation check that takes the last free copy.
LibroConsultable_ultimo(ejs) ==
    LET libres == {j \in 1..Len(ejs) : ejs[j].estado_accion = ""}
    IN  IF libres = {} THEN 0 ELSE CHOOSE i \in libres : \A j \in libres : j <= i

LibroConsultable(ejs) ==
    LET i == Menor({j \in 1..Len(ejs) : ejs[j].estado_accion = ""})
    IN  IF i = None THEN 0 ELSE i

PeliculaConsultable(ejs) ==
    LET i == PrimeroDeTipo(ejs, "C")
    IN  IF i = None THEN 0 ELSE IF ejs[i].estado THEN 0 ELSE i

comprobar_estado_recurso(b, tipo, id, consulta) ==
    IF ~consulta
    THEN IF tipo = "libro" THEN LibroPrestable(b.libros[id].ejemplares, 1, FALSE, FALSE)
         ELSE IF tipo = "pelicula" THEN PeliculaPrestable(b.peliculas[id].ejemplares)
         ELSE 0
    ELSE IF tipo = "libro" THEN LibroConsultable(b.libros[id].ejemplares)
         ELSE IF tipo = "revista"
              THEN IF b.revistas[id].estado_consulta THEN 0 ELSE 1
         ELSE PeliculaConsultable(b.peliculas[id].ejemplares)

(***************************************************************************)
(* Catalogue: configurar_libro, configurar_revista, configurar_pelicula.   *)
(***************************************************************************)
RECURSIVE NuevosEjemplares(_, _)
NuevosEjemplares(ejs, n) ==
    IF n = 0 THEN ejs
    ELSE NuevosEjemplares(Append(ejs, EjemplarLibro(ejs[Len(ejs)].nro_ejemplar + 1)), n - 1)

\* configurar_libro with n > 0 copies.
configurar_libro(b, t, n) ==
    LET libro == buscar_libro(b, t)
    IN  IF libro # None
        THEN \* option 1: the next number is the last copy's number plus one
             IF b.libros[libro].ejemplares = <<>> THEN Fallo(b)
             ELSE Res([b EXCEPT !.libros[libro].ejemplares = NuevosEjemplares(@, n)],
                      "ok", TRUE)
        ELSE LET id == b.nro_id_libro + 1
                 nuevo == [titulo |-> t,
                           ejemplares |-> [i \in 1..n |-> EjemplarLibro(i)]]
             IN  Res([b EXCEPT !.nro_id_libro = id, !.libros = Poner(@, id, nuevo)],
                     "ok", TRUE)

configurar_revista(b, t) ==
    IF buscar_revista(b, t) # None THEN Res(b, "existe", FALSE)
    ELSE LET id == b.nro_id_revista + 1
         IN  Res([b EXCEPT !.nro_id_revista = id,
                           !.revistas = Poner(@, id, [nombre |-> t, estado_consulta |-> FALSE])],
                 "ok", TRUE)

\* configurar_pelicula that adds the copies asked for without looking at the
\* copies the movie has.
configurar_pelicula_sin_tope(b, t, n) ==
    LET pelicula == buscar_pelicula(b, t)
        ejs == IF n = 1 THEN <<PeliculaBiblioteca>>
               ELSE <<PeliculaBiblioteca, PeliculaPrestamo>>
    IN  IF pelicula # None
        THEN Res([b EXCEPT !.peliculas[pelicula].ejemplares = @ \o ejs], "ok", TRUE)
        ELSE Res([b EXCEPT !.nro_id_pelicula = b.nro_id_pelicula + 1,
                           !.peliculas = Poner(@, b.nro_id_pelicula + 1,
                                               [titulo |-> t, ejemplares |-> ejs])],
                 "ok", TRUE)

\* configurar_pelicula with n > 0 copies.
configurar_pelicula(b, t, n) ==
    LET pelicula == buscar_pelicula(b, t)
    IN  IF pelicula # None
        THEN LET ejs == b.peliculas[pelicula].ejemplares
             IN  IF Len(ejs) = MaxEjemplaresPelicula THEN Res(b, "lleno", FALSE)
                 ELSE IF Len(ejs) + n > MaxEjemplaresPelicula THEN Res(b, "InvalidInput", FALSE)
                 ELSE IF n = 1
                      THEN IF ejs = <<>> THEN Fallo(b)
                           ELSE IF ejs[1].tipo = "C"
                                THEN Res([b EXCEPT !.peliculas[pelicula].ejemplares =
                                                       Append(@, PeliculaPrestamo)], "ok", TRUE)
                                ELSE Res([b EXCEPT !.peliculas[pelicula].ejemplares =
                                                       <<PeliculaBiblioteca>> \o @], "ok", TRUE)
                 ELSE Res([b EXCEPT !.peliculas[pelicula].ejemplares =
                                        <<PeliculaBiblioteca, PeliculaPrestamo>>], "ok", TRUE)
        ELSE IF n > MaxEjemplaresPelicula THEN Res(b, "InvalidInput", FALSE)
        ELSE LET id == b.nro_id_pelicula + 1
                 ejs == IF n = 1 THEN <<PeliculaBiblioteca>>
                        ELSE <<PeliculaBiblioteca, PeliculaPrestamo>>
             IN  Res([b EXCEPT !.nro_id_pelicula = id,
                               !.peliculas = Poner(@, id, [titulo |-> t, ejemplares |-> ejs])],
                     "ok", TRUE)

(***************************************************************************)
(* mostrar_menu_eliminar_recurso.                                          *)
(***************************************************************************)
\* Book, a selection of copy numbers (sel), confirmed; borrar answers the
\* question asked once the book has no copies left.
eliminar_ejemplares_libro(b, id, sel, borrar) ==
    LET ejs == b.libros[id].ejemplares
        fuera == {i \in 1..Len(ejs) :
                     ejs[i].nro_ejemplar \in sel /\ ejs[i].estado_accion = ""}
        quedan == SelectSeq(ejs, LAMBDA e : ~(e.nro_ejemplar \in sel /\ e.estado_accion = ""))
        b2 == [b EXCEPT !.libros[id].ejemplares = quedan]
    IN  IF ejs = <<>>
        THEN IF borrar THEN Res([b EXCEPT !.libros = Quitar(@, id)], "ok", TRUE)
             ELSE Res(b, "cancelado", FALSE)
        ELSE IF fuera = {} THEN Res(b, "ResourceInUse", FALSE)
        ELSE IF quedan = <<>>
             THEN IF borrar THEN Res([b2 EXCEPT !.libros = Quitar(@, id)], "ok", TRUE)
                  ELSE Res(b2, "ok", FALSE)
        ELSE Res(b2, "ok", TRUE)

\* Book, selection (T)odos.
eliminar_todos_libro(b, id, borrar) ==
    LET ejs == b.libros[id].ejemplares
        b2 == [b EXCEPT !.libros[id].ejemplares = <<>>]
    IN  IF ejs = <<>>
        THEN IF borrar THEN Res([b EXCEPT !.libros = Quitar(@, id)], "ok", TRUE)
             ELSE Res(b, "cancelado", FALSE)
        ELSE IF \E i \in 1..Len(ejs) : ejs[i].estado_accion # ""
             THEN Res(b, "ResourceInUse", FALSE)
        ELSE IF borrar THEN Res([b2 EXCEPT !.libros = Quitar(@, id)], "ok", TRUE)
        ELSE Res(b2, "ok", TRUE)

eliminar_revista(b, id) ==
    IF b.revistas[id].estado_consulta THEN Res(b, "ResourceInUse", FALSE)
    ELSE Res([b EXCEPT !.revistas = Quitar(@, id)], "ok", TRUE)

\* Movie, seleccion in {"C", "P", "T"}: the copies are removed whatever
\* their state.
eliminar_pelicula(b, id, seleccion, borrar) ==
    LET ejs == b.peliculas[id].ejemplares
        opciones == {ejs[i].tipo : i \in 1..Len(ejs)} \cup
                    (IF Len(ejs) = 1 THEN {} ELSE {"T"})
        quedan == IF seleccion = "T" THEN <<>>
                  ELSE QuitarPosicion(ejs, PrimeroDeTipo(ejs, seleccion))
        b2 == [b EXCEPT !.peliculas[id].ejemplares = quedan]
    IN  IF ejs = <<>>
        THEN IF borrar THEN Res([b EXCEPT !.peliculas = Quitar(@, id)], "ok", TRUE)
             ELSE Res(b, "cancelado", FALSE)
        ELSE IF seleccion \notin opciones THEN Res(b, "InvalidInput", FALSE)
        ELSE IF quedan = <<>>
             THEN IF borrar THEN Res([b2 EXCEPT !.peliculas = Quitar(@, id)], "ok", TRUE)
                  ELSE Res(b2, "ok", FALSE)
        ELSE Res(b2, "ok", FALSE)

(***************************************************************************)
(* Registry: mostrar_menu_anadir_socio, mostrar_menu_eliminar_socio.       *)
(***************************************************************************)
anadir_socio(b, nif) ==
    IF nif \in DOMAIN b.socios THEN Res(b, "existe", FALSE)
    ELSE LET nro == b.nro_socio + 1
         IN  Res([b EXCEPT !.nro_socio = nro, !.socios = Poner(@, nif, Socio(nro))],
                 "ok", TRUE)

\* The removal that also drops the member's records from both ledgers.
eliminar_socio_y_registros(b, nif) ==
    IF nif \notin DOMAIN b.socios THEN Res(b, "NotFound", FALSE)
    ELSE IF b.socios[nif].ejemplares_prestados # <<>>
            \/ b.socios[nif].recurso_en_consulta # None
         THEN Res(b, "PatronHasActiveHoldings", FALSE)
    ELSE Res([b EXCEPT !.socios = Quitar(@, nif),
                       !.prestamos = [id \in {i \in DOMAIN @ : @[i].nif # nif} |-> @[id]],
                       !.consultas = [id \in {i \in DOMAIN @ : @[i].nif # nif} |-> @[id]]],
             "ok", TRUE)

\* The removal that does not look at what the member holds.
eliminar_socio_sin_comprobar(b, nif) ==
    IF nif \notin DOMAIN b.socios THEN Res(b, "NotFound", FALSE)
    ELSE Res([b EXCEPT !.socios = Quitar(@, nif)], "ok", TRUE)

eliminar_socio(b, nif) ==
    IF nif \notin DOMAIN b.socios THEN Res(b, "NotFound", FALSE)
    ELSE IF b.socios[nif].ejemplares_prestados # <<>>
            \/ b.socios[nif].recurso_en_consulta # None
         THEN Res(b, "PatronHasActiveHoldings", FALSE)
    ELSE Res([b EXCEPT !.socios = Quitar(@, nif)], "ok", TRUE)

(***************************************************************************)
(* Changing the state of one copy.                                         *)
(***************************************************************************)
\* Position of the copy equal to the one rebuilt from a record's resource
\* dictionary (list.index), 0 when index() would raise ValueError.
IndiceEjemplar(ejs, nro) ==
    LET i == Menor({j \in 1..Len(ejs) : ejs[j].nro_ejemplar = nro})
    IN  IF i = None THEN 0 ELSE i

\* ejemplar.estado_prestamo = False / ejemplar.estado_local = False on the
\* object found at a position: on a copy of the other class the assignment
\* creates a new attribute and leaves the copy's own flag alone.
PonerEstadoPrestamoFalso(e) ==
    IF e.tipo = "P" THEN [e EXCEPT !.estado = FALSE] ELSE [e EXCEPT !.ajeno = TRUE]

PonerEstadoLocalFalso(e) ==
    IF e.tipo = "C" THEN [e EXCEPT !.estado = FALSE] ELSE [e EXCEPT !.ajeno = TRUE]

\* libros[libro][libros[libro].index(ejemplar)].estado_accion = ""
LiberarLibro(b, ref) ==
    IF ref.id \notin DOMAIN b.libros THEN Fallo(b)
    ELSE LET i == IndiceEjemplar(b.libros[ref.id].ejemplares, ref.nro)
         IN  IF i = 0 THEN Fallo(b)
             ELSE Res([b EXCEPT !.libros[ref.id].ejemplares[i].estado_accion = ""],
                      "ok", FALSE)

\* peliculas[pelicula][1].estado_prestamo = False
LiberarPeliculaPrestamo(b, ref) ==
    IF ref.id \notin DOMAIN b.peliculas THEN Fallo(b)
    ELSE IF Len(b.peliculas[ref.id].ejemplares) < 2 THEN Fallo(b)
    ELSE Res([b EXCEPT !.peliculas[ref.id].ejemplares[2] = PonerEstadoPrestamoFalso(@)],
             "ok", FALSE)

\* peliculas[pelicula][0].estado_local = False
LiberarPeliculaLocal(b, ref) ==
    IF ref.id \notin DOMAIN b.peliculas THEN Fallo(b)
    ELSE IF Len(b.peliculas[ref.id].ejemplares) < 1 THEN Fallo(b)
    ELSE Res([b EXCEPT !.peliculas[ref.id].ejemplares[1] = PonerEstadoLocalFalso(@)],
             "ok", FALSE)

\* for revista in revistas: if revista.id == <id>: estado_consulta = False
LiberarRevista(b, ref) ==
    IF ref.id \in DOMAIN b.revistas
    THEN Res([b EXCEPT !.revistas[ref.id].estado_consulta = FALSE], "ok", FALSE)
    ELSE Res(b, "ok", FALSE)

(***************************************************************************)
(* mostrar_menu_prestamo_consulta, election (P)restamo.                    *)
(* dia is the request date, FechaNone when the date entry is cancelled.    *)
(***************************************************************************)
\* The member already holds an open loan whose resource dictionary is a copy
\* of this book.
YaTieneLibro(b, socio, id) ==
    \E k \in 1..Len(socio.ejemplares_prestados) :
        LET ref == b.prestamos[socio.ejemplares_prestados[k]].id_recurso
        IN  ref.tipo = "libro" /\ ref.id = id

MarcarPrestamo(b, tipo, id, pos) ==
    IF tipo = "libro"
    THEN [b EXCEPT !.libros[id].ejemplares[pos].estado_accion = "Prestamo"]
    ELSE [b EXCEPT !.peliculas[id].ejemplares[pos].estado = TRUE]

RefPrestamo(b, tipo, id, pos) ==
    IF tipo = "libro" THEN RefLibro(id, b.libros[id].ejemplares[pos].nro_ejemplar)
    ELSE RefPelicula(id)

\* The record whose due date is counted from today, not from the request date.
RegistrarPrestamo_desde_hoy(b, nif, ref, dia) ==
    LET id_prestamo == b.nro_prestamo
        fecha_max == strftime(hoy + DiasPrestamo)
        prestamo == Prestamo(nif, ref, dia, b.socios[nif].nro_socio, fecha_max)
    IN  [b EXCEPT !.prestamos = Poner(@, id_prestamo, prestamo),
                  !.socios[nif].ejemplares_prestados = Append(@, id_prestamo)]

RegistrarPrestamo(b, nif, ref, dia) ==
    LET id_prestamo == b.nro_prestamo
        fecha_max == strftime(strptime(dia) + DiasPrestamo)
        prestamo == Prestamo(nif, ref, dia, b.socios[nif].nro_socio, fecha_max)
    IN  [b EXCEPT !.prestamos = Poner(@, id_prestamo, prestamo),
                  !.socios[nif].ejemplares_prestados = Append(@, id_prestamo)]

\* encontrar_recurso(LIBRO = True, PELICULA = True): the kinds of resource
\* the loan menu accepts.
TiposPrestamo == {"libro", "pelicula"}

\* The loan menu that also offers the magazines and lends the one found.
prestar_revistas(b, nif, tipo, t, dia) ==
    IF nif \notin DOMAIN b.socios THEN Res(b, "NoEsSocio", FALSE)
    ELSE IF Len(b.socios[nif].ejemplares_prestados) >= MaxPrestados
         THEN Res(b, "QuotaExceeded", FALSE)
    ELSE LET id == encontrar_recurso(b, tipo, t)
         IN  IF id = None THEN Res(b, "NotFound", FALSE)
             ELSE IF tipo = "revista"
                  THEN IF b.revistas[id].estado_consulta
                       THEN Res(b, "NoCopyAvailable", FALSE)
                       ELSE IF dia = FechaNone
                            THEN Res([b EXCEPT !.nro_prestamo = @ + 1], "cancelado", FALSE)
                       ELSE Res(RegistrarPrestamo([b EXCEPT !.nro_prestamo = @ + 1],
                                                  nif, RefRevista(id), dia),
                                "ok", TRUE)
             ELSE LET pos == comprobar_estado_recurso(b, tipo, id, FALSE)
                  IN  IF pos = 0 THEN Res(b, "NoCopyAvailable", FALSE)
                      ELSE IF tipo = "libro" /\ YaTieneLibro(b, b.socios[nif], id)
                           THEN Res(b, "DuplicateHolding", FALSE)
                      ELSE LET b1 == MarcarPrestamo(b, tipo, id, pos)
                               b2 == [b1 EXCEPT !.nro_prestamo = @ + 1]
                           IN  IF dia = FechaNone THEN Res(b2, "cancelado", FALSE)
                               ELSE Res(RegistrarPrestamo(b2, nif,
                                            RefPrestamo(b, tipo, id, pos), dia),
                                        "ok", TRUE)

\* prestar with the quota test written "len(...) > 3".
prestar_cupo_laxo(b, nif, tipo, t, dia) ==
    IF nif \notin DOMAIN b.socios THEN Res(b, "NoEsSocio", FALSE)
    ELSE IF Len(b.socios[nif].ejemplares_prestados) > MaxPrestados
         THEN Res(b, "QuotaExceeded", FALSE)
    ELSE LET id == encontrar_recurso(b, tipo, t)
         IN  IF id = None THEN Res(b, "NotFound", FALSE)
             ELSE LET pos == comprobar_estado_recurso(b, tipo, id, FALSE)
                  IN  IF pos = 0 THEN Res(b, "NoCopyAvailable", FALSE)
                      ELSE IF tipo = "libro" /\ YaTieneLibro(b, b.socios[nif], id)
                           THEN Res(b, "DuplicateHolding", FALSE)
                      ELSE LET b1 == MarcarPrestamo(b, tipo, id, pos)
                               b2 == [b1 EXCEPT !.nro_prestamo = @ + 1]
                           IN  IF dia = FechaNone THEN Res(b2, "cancelado", FALSE)
                               ELSE Res(RegistrarPrestamo(b2, nif,
                                            RefPrestamo(b, tipo, id, pos), dia),
                                        "ok", TRUE)

prestar(b, nif, tipo, t, dia) ==
    IF nif \notin DOMAIN b.socios THEN Res(b, "NoEsSocio", FALSE)
    ELSE IF Len(b.socios[nif].ejemplares_prestados) >= MaxPrestados
         THEN Res(b, "QuotaExceeded", FALSE)
    ELSE IF tipo \notin TiposPrestamo THEN Res(b, "InvalidInput", FALSE)
    ELSE LET id == encontrar_recurso(b, tipo, t)
         IN  IF id = None THEN Res(b, "NotFound", FALSE)
             ELSE LET pos == comprobar_estado_recurso(b, tipo, id, FALSE)
                  IN  IF pos = 0 THEN Res(b, "NoCopyAvailable", FALSE)
                      ELSE IF tipo = "libro" /\ YaTieneLibro(b, b.socios[nif], id)
                           THEN Res(b, "DuplicateHolding", FALSE)
                      ELSE LET b1 == MarcarPrestamo(b, tipo, id, pos)
                               b2 == [b1 EXCEPT !.nro_prestamo = @ + 1]
                           IN  IF dia = FechaNone THEN Res(b2, "cancelado", FALSE)
                               ELSE Res(RegistrarPrestamo(b2, nif,
                                            RefPrestamo(b, tipo, id, pos), dia),
                                        "ok", TRUE)

(***************************************************************************)
(* mostrar_menu_prestamo_consulta, election (C)onsulta.                    *)
(* fecha is the request date as stored: str() of the date entry.           *)
(***************************************************************************)
MarcarConsulta(b, tipo, id, pos) ==
    IF tipo = "libro"
    THEN [b EXCEPT !.libros[id].ejemplares[pos].estado_accion = "Consulta"]
    ELSE IF tipo = "revista"
         THEN [b EXCEPT !.revistas[id].estado_consulta = TRUE]
    ELSE [b EXCEPT !.peliculas[id].ejemplares[pos].estado = TRUE]

RefConsulta(b, tipo, id, pos) ==
    IF tipo = "libro" THEN RefLibro(id, b.libros[id].ejemplares[pos].nro_ejemplar)
    ELSE IF tipo = "revista" THEN RefRevista(id)
    ELSE RefPelicula(id)

AnotarConsulta(u, id_consulta, fecha) ==
    [u EXCEPT !.recurso_en_consulta = id_consulta,
              !.fecha_solicitud_consulta = fecha,
              !.hora_solicitud_consulta = Hora]

RegistrarConsulta(b, nif, ref, fecha) ==
    LET id_consulta == b.nro_consulta
        b1 == [b EXCEPT !.consultas = Poner(@, id_consulta, generar_consulta(nif, ref, fecha))]
    IN  IF nif \in DOMAIN b.socios
        THEN [b1 EXCEPT !.socios[nif] = AnotarConsulta(@, id_consulta, fecha)]
        ELSE [b1 EXCEPT !.ocasionales[nif] = AnotarConsulta(@, id_consulta, fecha)]

\* Biblioteca.agregar_ocasional: self.ocasionales is a dict and has no append.
agregar_ocasional(b, nif) == Fallo(b)

consultar(b, nif, tipo, t, fecha) ==
    LET usuario == IF nif \in DOMAIN b.socios THEN b.socios[nif]
                   ELSE b.ocasionales[nif]
    IN  IF nif \notin DOMAIN b.socios /\ nif \notin DOMAIN b.ocasionales
        THEN agregar_ocasional(b, nif)
        ELSE IF usuario.recurso_en_consulta # None
             THEN Res(b, "AlreadyConsulting", FALSE)
        ELSE LET id == encontrar_recurso(b, tipo, t)
             IN  IF id = None THEN Res(b, "NotFound", FALSE)
                 ELSE LET pos == comprobar_estado_recurso(b, tipo, id, TRUE)
                      IN  IF pos = 0 THEN Res(b, "NoCopyAvailable", FALSE)
                          ELSE LET b1 == [b EXCEPT !.nro_consulta = @ + 1]
                                   b2 == MarcarConsulta(b1, tipo, id, pos)
                               IN  Res(RegistrarConsulta(b2, nif,
                                           RefConsulta(b, tipo, id, pos), fecha),
                                       "ok", TRUE)

(***************************************************************************)
(* mostrar_menu_devolver.                                                  *)
(***************************************************************************)
\* Member, one open loan, at position sel of ejemplares_prestados.
devolver_prestamo(b, nif, sel) ==
    LET prestamo == b.socios[nif].ejemplares_prestados[sel]
        ref == b.prestamos[prestamo].id_recurso
        r == IF ref.tipo = "libro" THEN LiberarLibro(b, ref)
             ELSE LiberarPeliculaPrestamo(b, ref)
        b2 == [r.b EXCEPT !.prestamos[prestamo].fecha_devuelto = strftime(hoy),
                          !.socios[nif].ejemplares_prestados = QuitarDeLista(@, prestamo)]
    IN  IF r.res = "fallo" THEN r
        ELSE IF CadenaMenor(b2.prestamos[prestamo].fecha_max_devolucion,
                            b2.prestamos[prestamo].fecha_devuelto)
             THEN Res(b2, "fuera de plazo", TRUE)
        ELSE Res(b2, "a tiempo", TRUE)

\* Member, the open consultation.  For a magazine the loop compares
\* revista.id with the whole resource dictionary, so no magazine matches;
\* for a movie the statement is the one of a loan.
devolver_consulta(b, nif) ==
    LET consulta == b.socios[nif].recurso_en_consulta
        ref == b.consultas[consulta].id_recurso
        r == IF ref.tipo = "libro" THEN LiberarLibro(b, ref)
             ELSE IF ref.tipo = "revista" THEN Res(b, "ok", FALSE)
             ELSE LiberarPeliculaPrestamo(b, ref)
        b2 == [r.b EXCEPT !.consultas[consulta].hora_devolucion = Hora,
                          !.socios[nif].recurso_en_consulta = None]
    IN  IF r.res = "fallo" THEN r ELSE Res(b2, "ok", TRUE)

\* Member, selection sel (1-based) among the open loans followed by the
\* open consultation.
devolver(b, nif, sel) ==
    LET socio == b.socios[nif]
        n == Len(socio.ejemplares_prestados)
        c == IF socio.recurso_en_consulta # None THEN 1 ELSE 0
    IN  IF sel < 1 \/ sel > n + c THEN Res(b, "InvalidInput", FALSE)
        ELSE IF sel <= n THEN devolver_prestamo(b, nif, sel)
        ELSE devolver_consulta(b, nif)

\* The bulk return that empties the member's holdings and leaves the
\* records as they are.
devolver_todos_sin_cerrar(b, nif) ==
    Res([b EXCEPT !.socios[nif].ejemplares_prestados = <<>>,
                  !.socios[nif].recurso_en_consulta = None], "ok", TRUE)

\* Member, selection (T)odos: the isinstance tests are made on the record
\* ids (strings), so no branch that frees a copy is taken.
devolver_todos(b, nif) ==
    LET socio == b.socios[nif]
        suyos == {socio.ejemplares_prestados[k] : k \in 1..Len(socio.ejemplares_prestados)}
        b1 == [b EXCEPT !.prestamos =
                   [p \in DOMAIN @ |-> IF p \in suyos
                                        THEN [@[p] EXCEPT !.fecha_devuelto = strftime(hoy)]
                                        ELSE @[p]]]
        b2 == IF socio.recurso_en_consulta # None
              THEN [b1 EXCEPT !.consultas[socio.recurso_en_consulta].hora_devolucion = Hora,
                              !.socios[nif].recurso_en_consulta = None]
              ELSE b1
    IN  Res([b2 EXCEPT !.socios[nif].ejemplares_prestados = <<>>], "ok", TRUE)

\* eliminar_consulta: the return of a casual user's consultation.
eliminar_consulta(b, nif) ==
    LET consulta == b.ocasionales[nif].recurso_en_consulta
        ref == b.consultas[consulta].id_recurso
        r == IF ref.tipo = "libro" THEN LiberarLibro(b, ref)
             ELSE IF ref.tipo = "revista" THEN LiberarRevista(b, ref)
             ELSE LiberarPeliculaLocal(b, ref)
        b2 == [r.b EXCEPT !.consultas[consulta].hora_devolucion = Hora,
                          !.ocasionales[nif] = Ocasional]
    IN  IF r.res = "fallo" THEN r ELSE Res(b2, "ok", TRUE)

(***************************************************************************)
(* mostrar_menu_renovar.                                                   *)
(***************************************************************************)
\* fecha_max_devolucion >= datetime.now() + timedelta(days=3): the due date
\* is a datetime at 00:00:00 and now() carries the time of day, so the two
\* are equal only at midnight sharp (medianoche).
FueraDeVentana(vence, medianoche) ==
    vence > hoy + DiasVentana \/ (vence = hoy + DiasVentana /\ medianoche)

\* The limit test written "renovacion > 3".
LimiteAlcanzado_laxo(p) == p.renovacion > MaxRenovaciones

\* biblioteca.prestamos[prestamo].renovacion >= 3
LimiteAlcanzado(p) == p.renovacion >= MaxRenovaciones

\* The overdue test written "fecha_max_devolucion <= today".
FueraDePlazo_inclusive(p) == ~CadenaMenor(strftime(hoy), p.fecha_max_devolucion)

\* fecha_max_devolucion < datetime.now().strftime("%Y-%m-%d"), on strings.
FueraDePlazo(p) == CadenaMenor(p.fecha_max_devolucion, strftime(hoy))

\* The renewal that gives a movie what it gives a book.
Renovado_pelicula_como_libro(p) ==
    [p EXCEPT !.fecha_max_devolucion = strftime(strptime(@) + DiasPrestamo),
              !.renovacion = @ + 1]

\* The record after the renewal: seven days more for a book copy, two days
\* from now for a movie.
Renovado(p) ==
    IF p.id_recurso.tipo = "libro"
    THEN [p EXCEPT !.fecha_max_devolucion = strftime(strptime(@) + DiasPrestamo),
                   !.renovacion = @ + 1]
    ELSE [p EXCEPT !.fecha_max_devolucion = strftime(hoy + DiasRenovacionPelicula),
                   !.renovacion = @ + 1]

\* medianoche: datetime.now() is 00:00:00.000000 of today.
renovar(b, nif, sel, saltar, medianoche) ==
    IF nif \notin DOMAIN b.socios THEN Fallo(b)
    ELSE LET socio == b.socios[nif]
         IN  IF sel < 1 \/ sel > Len(socio.ejemplares_prestados)
             THEN Res(b, "InvalidInput", FALSE)
             ELSE LET prestamo == socio.ejemplares_prestados[sel]
                      p == b.prestamos[prestamo]
                  IN  IF LimiteAlcanzado(p)
                      THEN Res(b, "RenewalLimitReached", FALSE)
                      ELSE IF FueraDePlazo(p)
                           THEN Res(b, "LoanOverdue", FALSE)
                      ELSE IF FueraDeVentana(strptime(p.fecha_max_devolucion), medianoche)
                              /\ ~saltar
                           THEN Res(b, "RenewalWindowNotOpen", FALSE)
                      ELSE Res([b EXCEPT !.prestamos[prestamo] = Renovado(p)], "ok", TRUE)

(***************************************************************************)
(* datos.json: guardar_datos and cargar_datos.                             *)
(***************************************************************************)
\* datos.json: whether the file exists, what it holds ("json": what json.dump
\* wrote; "texto": text that is no JSON document, as an empty or a truncated
\* file; "bytes": bytes that are no UTF-8 text) and, for "json", the data.
SinArchivo == [existe |-> FALSE, contenido |-> "json", data |-> Biblioteca]

ArchivoDanado(contenido) == [existe |-> TRUE, contenido |-> contenido, data |-> Biblioteca]

\* ejemplar.__dict__ of a movie copy: the flag of its class and, once a
\* return has assigned the other class's flag to it, that flag as well.
DictEjemplarPelicula(e) ==
    LET propio == IF e.tipo = "C" THEN "estado_local" ELSE "estado_prestamo"
        otro == IF e.tipo = "C" THEN "estado_prestamo" ELSE "estado_local"
    IN  [k \in {propio} \cup (IF e.ajeno THEN {otro} ELSE {}) |->
            IF k = propio THEN e.estado ELSE FALSE]

\* json.dump: the movie copies are written as their dictionaries, which do
\* not name their class.
guardar_datos(b) ==
    [existe |-> TRUE, contenido |-> "json",
     data |-> [b EXCEPT !.peliculas =
                  [id \in DOMAIN b.peliculas |->
                      [titulo |-> b.peliculas[id].titulo,
                       ejemplares |->
                           [i \in 1..Len(b.peliculas[id].ejemplares) |->
                               DictEjemplarPelicula(b.peliculas[id].ejemplares[i])]]]]]

\* A copy dictionary that holds both estado_local and estado_prestamo makes
\* the copy's constructor raise TypeError.
Cargable(d) ==
    \A id \in DOMAIN d.data.peliculas :
        \A i \in 1..Len(d.data.peliculas[id].ejemplares) :
            Cardinality(DOMAIN d.data.peliculas[id].ejemplares[i]) = 1

\* PeliculaBiblioteca(**ejemplar) if 'estado_local' in ejemplar
\* else PeliculaPrestamo(**ejemplar)
EjemplarPeliculaDe(d) ==
    IF "estado_local" \in DOMAIN d
    THEN [PeliculaBiblioteca EXCEPT !.estado = d["estado_local"]]
    ELSE [PeliculaPrestamo EXCEPT !.estado = d["estado_prestamo"]]

\* open() raises FileNotFoundError and json.load raises JSONDecodeError, both
\* caught before any field is assigned; file.read() raises UnicodeDecodeError
\* and a constructor raises TypeError, which no clause catches.
cargar_datos(d) ==
    IF ~d.existe THEN Res(Biblioteca, "ok", FALSE)
    ELSE IF d.contenido = "bytes" THEN Fallo(Biblioteca)
    ELSE IF d.contenido = "texto" THEN Res(Biblioteca, "ok", FALSE)
    ELSE IF ~Cargable(d) THEN Fallo(Biblioteca)
    ELSE Res([d.data EXCEPT !.peliculas =
                 [id \in DOMAIN d.data.peliculas |->
                     [titulo |-> d.data.peliculas[id].titulo,
                      ejemplares |->
                          [i \in 1..Len(d.data.peliculas[id].ejemplares) |->
                              EjemplarPeliculaDe(d.data.peliculas[id].ejemplares[i])]]]],
             "ok", FALSE)

(***************************************************************************)
(* The state machine.  ultima records the last operation: its name, the    *)
(* national id it was given and the outcome.                               *)
(***************************************************************************)
Vivo == ultima.res # "fallo"

Ultima(op, nif, res) == [op |-> op, res |-> res]

Ejecutar(op, nif, r) ==
    /\ Vivo
    /\ IF r.res = "fallo"
       THEN /\ biblioteca' = Biblioteca
            /\ UNCHANGED datos_json
       ELSE /\ biblioteca' = r.b
            /\ datos_json' = IF r.guardar THEN guardar_datos(r.b) ELSE datos_json
    /\ ultima' = Ultima(op, nif, r.res)
    /\ UNCHANGED hoy

\* __main__: a start of the program (after a fault or after leaving through
\* the main menu), which loads datos.json.
Iniciar ==
    LET r == cargar_datos(datos_json)
    IN  /\ biblioteca' = r.b
        /\ ultima' = Ultima("iniciar", "", r.res)
        /\ UNCHANGED <<datos_json, hoy>>

ConfigurarLibro(titulos) ==
    \E t \in titulos, n \in 1..MaxEjemplares :
        /\ buscar_libro(biblioteca, t) = None => biblioteca.nro_id_libro < MaxRecursos
        /\ buscar_libro(biblioteca, t) # None =>
               LET ejs == biblioteca.libros[buscar_libro(biblioteca, t)].ejemplares
               IN  ejs # <<>> => ejs[Len(ejs)].nro_ejemplar + n <= MaxEjemplares
        /\ Ejecutar("configurar libro", "", configurar_libro(biblioteca, t, n))

ConfigurarRevista(titulos) ==
    \E t \in titulos :
        /\ biblioteca.nro_id_revista < MaxRecursos
        /\ Ejecutar("configurar revista", "", configurar_revista(biblioteca, t))

ConfigurarPelicula(titulos) ==
    \E t \in titulos, n \in 1..MaxEjemplaresPelicula :
        /\ buscar_pelicula(biblioteca, t) = None => biblioteca.nro_id_pelicula < MaxRecursos
        /\ Ejecutar("configurar pelicula", "", configurar_pelicula(biblioteca, t, n))

EliminarEjemplaresLibro ==
    \E id \in DOMAIN biblioteca.libros, borrar \in BOOLEAN :
        \E sel \in SUBSET {biblioteca.libros[id].ejemplares[i].nro_ejemplar :
                              i \in 1..Len(biblioteca.libros[id].ejemplares)} :
            /\ (sel # {} \/ biblioteca.libros[id].ejemplares = <<>>)
            /\ Ejecutar("eliminar libro", "",
                        eliminar_ejemplares_libro(biblioteca, id, sel, borrar))

EliminarTodosLibro ==
    \E id \in DOMAIN biblioteca.libros, borrar \in BOOLEAN :
        Ejecutar("eliminar libro", "", eliminar_todos_libro(biblioteca, id, borrar))

EliminarRevista ==
    \E id \in DOMAIN biblioteca.revistas :
        Ejecutar("eliminar revista", "", eliminar_revista(biblioteca, id))

EliminarPelicula ==
    \E id \in DOMAIN biblioteca.peliculas, seleccion \in {"C", "P", "T"}, borrar \in BOOLEAN :
        Ejecutar("eliminar pelicula", "",
                 eliminar_pelicula(biblioteca, id, seleccion, borrar))

AnadirSocio(nifs) ==
    \E nif \in nifs :
        /\ biblioteca.nro_socio < MaxSocios
        /\ Ejecutar("anadir socio", nif, anadir_socio(biblioteca, nif))

EliminarSocio(nifs) ==
    \E nif \in nifs :
        /\ Vivo
        /\ Ejecutar("eliminar socio", nif, eliminar_socio(biblioteca, nif))

\* Loan with the real date (option R of configurar_fecha_prestamo).
Prestar(nifs, tipos, titulos, max) ==
    \E nif \in nifs, tipo \in tipos, t \in titulos :
        /\ prestar(biblioteca, nif, tipo, t, strftime(hoy)).b.nro_prestamo <= max
        /\ Ejecutar("prestar", nif, prestar(biblioteca, nif, tipo, t, strftime(hoy)))

\* Loan whose date entry is cancelled (KeyboardInterrupt).
PrestarSinFecha(nifs, tipos, titulos, max) ==
    \E nif \in nifs, tipo \in tipos, t \in titulos :
        /\ prestar(biblioteca, nif, tipo, t, FechaNone).b.nro_prestamo <= max
        /\ Ejecutar("prestar", nif, prestar(biblioteca, nif, tipo, t, FechaNone))

\* Loan with a date typed by hand (option M of configurar_fecha_prestamo):
\* the date is asked after the copy is marked, and an answer that passes the
\* range test but names no day of its month ends the program.
prestar_manual(b, nif, tipo, t, d, m, a) ==
    LET r == prestar(b, nif, tipo, t, FechaNone)
        f == configurar_fecha_manual(d, m, a)
    IN  IF r.res # "cancelado" THEN r
        ELSE IF f.res = "fallo" THEN Fallo(b)
        ELSE prestar(b, nif, tipo, t, f.fecha)

\* fechas: the answers <<day, month, year>> typed; one the range test
\* refuses is asked again and is no step.
PrestarManual(nifs, tipos, titulos, fechas, max) ==
    \E nif \in nifs, tipo \in tipos, t \in titulos, f \in fechas :
        /\ configurar_fecha_manual(f[1], f[2], f[3]).res # "rechazada"
        /\ prestar(biblioteca, nif, tipo, t, FechaNone).b.nro_prestamo <= max
        /\ Ejecutar("prestar", nif,
                    prestar_manual(biblioteca, nif, tipo, t, f[1], f[2], f[3]))

Consultar(nifs, tipos, titulos, max) ==
    \E nif \in nifs, tipo \in tipos, t \in titulos :
        /\ consultar(biblioteca, nif, tipo, t, strftime(hoy)).b.nro_consulta <= max
        /\ Ejecutar("consultar", nif, consultar(biblioteca, nif, tipo, t, strftime(hoy)))

TieneAlgo(u) == u.recurso_en_consulta # None

\* mostrar_menu_devolver for a member who holds something: one selection.
Devolver ==
    \E nif \in DOMAIN biblioteca.socios :
        /\ biblioteca.socios[nif].ejemplares_prestados # <<>>
               \/ TieneAlgo(biblioteca.socios[nif])
        /\ \E sel \in 1..(Len(biblioteca.socios[nif].ejemplares_prestados) + 1) :
               Ejecutar("devolver", nif, devolver(biblioteca, nif, sel))

DevolverTodos ==
    \E nif \in DOMAIN biblioteca.socios :
        /\ biblioteca.socios[nif].ejemplares_prestados # <<>>
               \/ TieneAlgo(biblioteca.socios[nif])
        /\ Ejecutar("devolver todos", nif, devolver_todos(biblioteca, nif))

\* mostrar_menu_devolver for a casual user with an open consultation.
DevolverOcasional ==
    \E nif \in DOMAIN biblioteca.ocasionales :
        /\ nif \notin DOMAIN biblioteca.socios
        /\ TieneAlgo(biblioteca.ocasionales[nif])
        /\ Ejecutar("devolver", nif, eliminar_consulta(biblioteca, nif))

Renovar(nifs) ==
    \E nif \in nifs, saltar \in BOOLEAN, medianoche \in BOOLEAN :
        /\ nif \in DOMAIN biblioteca.socios =>
               biblioteca.socios[nif].ejemplares_prestados # <<>>
        /\ \E sel \in 1..MaxPrestados :
               /\ nif \in DOMAIN biblioteca.socios =>
                      sel <= Len(biblioteca.socios[nif].ejemplares_prestados)
               /\ Ejecutar("renovar", nif, renovar(biblioteca, nif, sel, saltar, medianoche))

\* Midnight passes: datetime.now() is read anew by every operation.
Avanzar(max) ==
    /\ Vivo
    /\ hoy < max
    /\ hoy' = hoy + 1
    /\ UNCHANGED <<biblioteca, datos_json, ultima>>

\* The day of the first start: 2025-01-03.
Hoy0 == Ordinal(2025, 1, 3)

(***************************************************************************)
(* The program from its first start, with no datos.json: the catalogue and *)
(* the registry.                                                           *)
(***************************************************************************)
InitCatalogo ==
    /\ biblioteca = Biblioteca
    /\ datos_json = SinArchivo
    /\ hoy = Hoy0
    /\ ultima = Ultima("iniciar", "", "ok")

NextCatalogo ==
    \/ Iniciar
    \/ ConfigurarLibro({"F"})
    \/ ConfigurarRevista({"F"})
    \/ ConfigurarPelicula({"F"})
    \/ EliminarEjemplaresLibro
    \/ EliminarTodosLibro
    \/ EliminarRevista
    \/ EliminarPelicula
    \/ AnadirSocio({"n1", "n2"})
    \/ EliminarSocio({"n1", "n2"})

SpecCatalogo == InitCatalogo /\ [][NextCatalogo]_vars

(***************************************************************************)
(* Libraries the catalogue and registry operations build, saved.           *)
(***************************************************************************)
LibroNuevo(t, n) == [titulo |-> t, ejemplares |-> [i \in 1..n |-> EjemplarLibro(i)]]

PeliculaNueva(t) == [titulo |-> t, ejemplares |-> <<PeliculaBiblioteca, PeliculaPrestamo>>]

\* configurar_libro("F", 2), configurar_libro("G", 2), configurar_libro("H", 2),
\* configurar_pelicula("F", 2) and two members.
BibliotecaCupo ==
    [Biblioteca EXCEPT
        !.libros = (1 :> LibroNuevo("F", 2)) @@ (2 :> LibroNuevo("G", 2))
                       @@ (3 :> LibroNuevo("H", 2)),
        !.peliculas = (1 :> PeliculaNueva("F")),
        !.socios = ("n1" :> Socio(1)) @@ ("n2" :> Socio(2)),
        !.nro_id_libro = 3, !.nro_id_pelicula = 1, !.nro_socio = 2]

InitCupo ==
    /\ biblioteca = BibliotecaCupo
    /\ datos_json = guardar_datos(BibliotecaCupo)
    /\ hoy = Hoy0
    /\ ultima = Ultima("iniciar", "", "ok")

NextCupo ==
    \/ Iniciar
    \/ Prestar({"n1"}, {"libro", "pelicula"}, {"F", "G", "H"}, MaxPrestamosCupo)
    \/ Prestar({"n2"}, {"libro", "pelicula"}, {"F"}, MaxPrestamosCupo)
    \/ Devolver

SpecCupo == InitCupo /\ [][NextCupo]_vars

\* configurar_libro("F", 2), configurar_libro("G", 3) and three members.
BibliotecaLibro ==
    [Biblioteca EXCEPT
        !.libros = (1 :> LibroNuevo("F", 2)) @@ (2 :> LibroNuevo("G", 3)),
        !.socios = ("n1" :> Socio(1)) @@ ("n2" :> Socio(2)) @@ ("n3" :> Socio(3)),
        !.nro_id_libro = 2, !.nro_socio = 3]

InitLibro ==
    /\ biblioteca = BibliotecaLibro
    /\ datos_json = guardar_datos(BibliotecaLibro)
    /\ hoy = Hoy0
    /\ ultima = Ultima("iniciar", "", "ok")

NextLibro ==
    \/ Iniciar
    \/ Prestar({"n1", "n2", "n3"}, {"libro"}, {"F", "G"}, MaxPrestamosLibro)
    \/ Consultar({"n3"}, {"libro"}, {"F", "G"}, MaxConsultas)
    \/ Devolver

SpecLibro == InitLibro /\ [][NextLibro]_vars

\* configurar_libro("F", 2), configurar_revista("F"), configurar_pelicula("F", 2)
\* and two members.
BibliotecaCirculacion ==
    [Biblioteca EXCEPT
        !.libros = (1 :> LibroNuevo("F", 2)),
        !.revistas = (1 :> [nombre |-> "F", estado_consulta |-> FALSE]),
        !.peliculas = (1 :> PeliculaNueva("F")),
        !.socios = ("n1" :> Socio(1)) @@ ("n2" :> Socio(2)),
        !.nro_id_libro = 1, !.nro_id_revista = 1, !.nro_id_pelicula = 1,
        !.nro_socio = 2]

Init ==
    /\ biblioteca = BibliotecaCirculacion
    /\ datos_json = guardar_datos(BibliotecaCirculacion)
    /\ hoy = Hoy0
    /\ ultima = Ultima("iniciar", "", "ok")

Next ==
    \/ Iniciar
    \/ Prestar({"n1", "n2"}, {"libro", "pelicula"}, {"F"}, MaxPrestamos)
    \/ PrestarSinFecha({"n1", "n2"}, {"libro", "pelicula"}, {"F"}, MaxPrestamos)
    \/ Consultar({"n1", "n2", "x"}, {"libro", "revista", "pelicula"}, {"F"}, MaxConsultas)
    \/ Devolver
    \/ DevolverTodos

Spec == Init /\ [][Next]_vars

(***************************************************************************)
(* The datos.json that test1() writes, reduced to one book, one magazine,  *)
(* one member and one casual user ("o1" stands for "23456789D"); the       *)
(* program is then started on it.                                          *)
(***************************************************************************)
MaxConsultasOcasional == 2

BibliotecaOcasional ==
    [Biblioteca EXCEPT
        !.libros = (1 :> LibroNuevo("F", 2)),
        !.revistas = (1 :> [nombre |-> "F", estado_consulta |-> FALSE]),
        !.socios = ("n1" :> Socio(1)),
        !.ocasionales = ("o1" :> Ocasional),
        !.nro_id_libro = 1, !.nro_id_revista = 1, !.nro_socio = 1]

InitOcasional ==
    /\ biblioteca = BibliotecaOcasional
    /\ datos_json = guardar_datos(BibliotecaOcasional)
    /\ hoy = Hoy0
    /\ ultima = Ultima("iniciar", "", "ok")

NextOcasional ==
    \/ Iniciar
    \/ AnadirSocio({"n1", "o1"})
    \/ Prestar({"n1", "o1"}, {"libro"}, {"F"}, MaxPrestamosLibro)
    \/ Consultar({"n1", "o1"}, {"libro", "revista"}, {"F"}, MaxConsultasOcasional)
    \/ Devolver
    \/ DevolverOcasional

SpecOcasional == InitOcasional /\ [][NextOcasional]_vars

(***************************************************************************)
(* Due dates: one book, one movie and one member; loans with the real date *)
(* and with dates typed by hand, renewals, returns, and the days passing.  *)
(***************************************************************************)
MaxPrestamosRenovar == 2

MaxDias == 1

BibliotecaRenovar ==
    [Biblioteca EXCEPT
        !.libros = (1 :> LibroNuevo("F", 2)),
        !.peliculas = (1 :> PeliculaNueva("F")),
        !.socios = ("n1" :> Socio(1)),
        !.nro_id_libro = 1, !.nro_id_pelicula = 1, !.nro_socio = 1]

\* Answers to "Introduce la fecha de (día/mes/año)": due today, due in three
\* days, due a week ago, and the 31st of February.
FechasManuales ==
    {<<27, 12, 2024>>, <<30, 12, 2024>>, <<20, 12, 2024>>, <<31, 2, 2024>>}

InitRenovar ==
    /\ biblioteca = BibliotecaRenovar
    /\ datos_json = guardar_datos(BibliotecaRenovar)
    /\ hoy = Hoy0
    /\ ultima = Ultima("iniciar", "", "ok")

NextRenovar ==
    \/ Iniciar
    \/ Prestar({"n1"}, {"libro", "pelicula"}, {"F"}, MaxPrestamosRenovar)
    \/ PrestarManual({"n1"}, {"libro", "pelicula"}, {"F"}, FechasManuales,
                     MaxPrestamosRenovar)
    \/ Renovar({"n1"})
    \/ Devolver
    \/ Avanzar(Hoy0 + MaxDias)

SpecRenovar == InitRenovar /\ [][NextRenovar]_vars

(***************************************************************************)
(* Removal from a catalogue in use: the circulation library, loans by one  *)
(* member, consultations by the other, and the removal menu.               *)
(***************************************************************************)
NextEliminar ==
    \/ Iniciar
    \/ Prestar({"n1"}, {"libro", "pelicula"}, {"F"}, MaxPrestamosLibro)
    \/ Consultar({"n2"}, {"libro", "revista", "pelicula"}, {"F"}, MaxConsultas)
    \/ Devolver
    \/ EliminarEjemplaresLibro
    \/ EliminarTodosLibro
    \/ EliminarRevista
    \/ EliminarPelicula

SpecEliminar == Init /\ [][NextEliminar]_vars

(***************************************************************************)
(* The registry in use: the test1() library of SpecOcasional, with members *)
(* added and removed while loans and consultations are opened and closed.  *)
(***************************************************************************)
MaxPrestamosSocios == 1

NextSocios ==
    \/ Iniciar
    \/ AnadirSocio({"n1", "o1"})
    \/ EliminarSocio({"n1", "o1"})
    \/ Prestar({"n1", "o1"}, {"libro"}, {"F"}, MaxPrestamosSocios)
    \/ PrestarSinFecha({"n1"}, {"libro"}, {"F"}, MaxPrestamosSocios)
    \/ Consultar({"n1", "o1"}, {"libro", "revista"}, {"F"}, MaxConsultas)
    \/ Devolver
    \/ DevolverTodos
    \/ DevolverOcasional

SpecSocios == InitOcasional /\ [][NextSocios]_vars

(***************************************************************************)
(* Movies in use: the datos.json that test1() writes, reduced to one movie *)
(* with its two copies, one member and one casual user; copies are added   *)
(* and removed while the movie is loaned and consulted.                    *)
(***************************************************************************)
BibliotecaPelicula ==
    [Biblioteca EXCEPT
        !.peliculas = (1 :> PeliculaNueva("F")),
        !.socios = ("n1" :> Socio(1)),
        !.ocasionales = ("o1" :> Ocasional),
        !.nro_id_pelicula = 1, !.nro_socio = 1]

InitPelicula ==
    /\ biblioteca = BibliotecaPelicula
    /\ datos_json = guardar_datos(BibliotecaPelicula)
    /\ hoy = Hoy0
    /\ ultima = Ultima("iniciar", "", "ok")

NextPelicula ==
    \/ Iniciar
    \/ ConfigurarPelicula({"F"})
    \/ EliminarPelicula
    \/ Prestar({"n1"}, {"pelicula"}, {"F"}, MaxPrestamosSocios)
    \/ Consultar({"n1", "o1"}, {"pelicula"}, {"F"}, MaxConsultasOcasional)
    \/ Devolver
    \/ DevolverOcasional

SpecPelicula == InitPelicula /\ [][NextPelicula]_vars

(***************************************************************************)
(* The ledgers over time: one book, one movie and one member; a loan and a *)
(* consultation are opened, renewed and returned, the member is removed    *)
(* and registered again, and copies are removed.                           *)
(***************************************************************************)
NextRegistros ==
    \/ Iniciar
    \/ Prestar({"n1"}, {"libro", "pelicula"}, {"F"}, MaxPrestamosSocios)
    \/ Consultar({"n1"}, {"libro"}, {"F"}, MaxConsultas)
    \/ Renovar({"n1"})
    \/ Devolver
    \/ DevolverTodos
    \/ AnadirSocio({"n1"})
    \/ EliminarSocio({"n1"})
    \/ EliminarEjemplaresLibro
    \/ EliminarPelicula

SpecRegistros == InitRenovar /\ [][NextRegistros]_vars

(***************************************************************************)
(* Magazines: the test1() library of SpecOcasional, with every kind of     *)
(* resource asked for at the loan menu and at the consultation menu.       *)
(***************************************************************************)
NextRevista ==
    \/ Iniciar
    \/ Prestar({"n1", "o1"}, {"libro", "revista", "pelicula"}, {"F"}, MaxPrestamosLibro)
    \/ PrestarSinFecha({"n1"}, {"libro", "revista"}, {"F"}, MaxPrestamosLibro)
    \/ Consultar({"n1", "o1"}, {"libro", "revista"}, {"F"}, MaxConsultasOcasional)
    \/ Devolver
    \/ DevolverTodos
    \/ DevolverOcasional
    \/ EliminarRevista

SpecRevista == InitOcasional /\ [][NextRevista]_vars

(***************************************************************************)
(* Starts of the program: from no datos.json, the registry and the         *)
(* magazines are filled, and between two runs the file is deleted or       *)
(* damaged.                                                                *)
(***************************************************************************)
\* What a damaged datos.json holds.
Danos == {"texto", "bytes"}

\* The file is deleted while the program is not looking.
BorrarArchivo ==
    /\ datos_json.existe
    /\ datos_json' = SinArchivo
    /\ UNCHANGED <<biblioteca, hoy, ultima>>

\* The file is overwritten with something json.dump did not write.
DanarArchivo ==
    \E contenido \in Danos :
        /\ datos_json.existe
        /\ datos_json' = ArchivoDanado(contenido)
        /\ UNCHANGED <<biblioteca, hoy, ultima>>

NextArranque ==
    \/ Iniciar
    \/ ConfigurarRevista({"F", "G"})
    \/ AnadirSocio({"n1", "n2"})
    \/ EliminarSocio({"n1", "n2"})
    \/ Consultar({"n1", "n2"}, {"revista"}, {"F", "G"}, MaxConsultas)
    \/ BorrarArchivo
    \/ DanarArchivo

SpecArranque == InitCatalogo /\ [][NextArranque]_vars

(***************************************************************************)
(* Vocabulary of the properties: inventory units, their state and the      *)
(* open ledger records that reference them.                                *)
(***************************************************************************)
Unidad(clase, id, nro) == [clase |-> clase, id |-> id, nro |-> nro]

Unidades(b) ==
    UNION {{Unidad("libro", id, b.libros[id].ejemplares[i].nro_ejemplar) :
                i \in 1..Len(b.libros[id].ejemplares)} : id \in DOMAIN b.libros}
    \cup {Unidad("revista", id, 0) : id \in DOMAIN b.revistas}
    \cup UNION {{Unidad(b.peliculas[id].ejemplares[i].tipo, id, 0) :
                     i \in 1..Len(b.peliculas[id].ejemplares)} : id \in DOMAIN b.peliculas}

\* Busy: on loan or in consultation.
Ocupada(b, u) ==
    IF u.clase = "libro"
    THEN /\ u.id \in DOMAIN b.libros
         /\ \E i \in 1..Len(b.libros[u.id].ejemplares) :
                /\ b.libros[u.id].ejemplares[i].nro_ejemplar = u.nro
                /\ b.libros[u.id].ejemplares[i].estado_accion # ""
    ELSE IF u.clase = "revista"
         THEN u.id \in DOMAIN b.revistas /\ b.revistas[u.id].estado_consulta
    ELSE /\ u.id \in DOMAIN b.peliculas
         /\ \E i \in 1..Len(b.peliculas[u.id].ejemplares) :
                /\ b.peliculas[u.id].ejemplares[i].tipo = u.clase
                /\ b.peliculas[u.id].ejemplares[i].estado

\* The unit a record's resource dictionary stands for: a loan of a movie is
\* a loan of its loan copy ("P"), a consultation of its library copy ("C").
UnidadDe(ref, consulta) ==
    IF ref.tipo = "libro" THEN Unidad("libro", ref.id, ref.nro)
    ELSE IF ref.tipo = "revista" THEN Unidad("revista", ref.id, 0)
    ELSE Unidad(IF consulta THEN "C" ELSE "P", ref.id, 0)

PrestamosAbiertos(b) ==
    {p \in DOMAIN b.prestamos : b.prestamos[p].fecha_devuelto = FechaNone}

ConsultasAbiertas(b) == {c \in DOMAIN b.consultas : b.consultas[c].hora_devolucion = None}

Abiertos(b, u) ==
    {<<"prestamo", p>> : p \in {q \in PrestamosAbiertos(b) :
                                   UnidadDe(b.prestamos[q].id_recurso, FALSE) = u}}
    \cup {<<"consulta", c>> : c \in {q \in ConsultasAbiertas(b) :
                                        UnidadDe(b.consultas[q].id_recurso, TRUE) = u}}

Libres(b, id) ==
    {i \in 1..Len(b.libros[id].ejemplares) : b.libros[id].ejemplares[i].estado_accion = ""}

SinNada(socio) == socio.ejemplares_prestados = <<>> /\ socio.recurso_en_consulta = None

\* The resources of a member's open loans, as <<kind, id>>.
RecursosPrestados(b, nif) ==
    [k \in 1..Len(b.socios[nif].ejemplares_prestados) |->
        LET ref == b.prestamos[b.socios[nif].ejemplares_prestados[k]].id_recurso
        IN  <<ref.tipo, ref.id>>]

(***************************************************************************)
(* Properties.                                                             *)
(***************************************************************************)
\* C1: every inventory unit (book copy, magazine, movie library copy, movie
\* loan copy) is busy if and only if exactly one open ledger record (loan
\* not yet returned, consultation not yet closed) references it.
C1_OcupadaSiiUnRegistro ==
    \A u \in Unidades(biblioteca) :
        Ocupada(biblioteca, u) <=> Cardinality(Abiertos(biblioteca, u)) = 1

\* C2: every member has at most 3 open loans in every reachable state, and
\* a loan asked by a member who has 3 open loans fails with QuotaExceeded
\* and leaves the library as it was (no record, no copy marked, no save).
C2_Cupo ==
    \A nif \in DOMAIN biblioteca.socios :
        /\ Len(biblioteca.socios[nif].ejemplares_prestados) <= MaxPrestados
        /\ Len(biblioteca.socios[nif].ejemplares_prestados) = MaxPrestados =>
               \A tipo \in {"libro", "pelicula"}, t \in {"F", "G", "H"} :
                   prestar(biblioteca, nif, tipo, t, strftime(hoy))
                       = Res(biblioteca, "QuotaExceeded", FALSE)

\* C2, its case: a member holds 3 open loans and the loan just asked was
\* refused for the quota.
C2_CupoAlcanzado ==
    /\ ultima = Ultima("prestar", "", "QuotaExceeded")
    /\ \E nif \in DOMAIN biblioteca.socios :
           /\ Len(biblioteca.socios[nif].ejemplares_prestados) = MaxPrestados
           /\ \A k \in 1..MaxPrestados :
                  biblioteca.socios[nif].ejemplares_prestados[k]
                      \in PrestamosAbiertos(biblioteca)

\* C3: the bulk return of a member who holds something leaves every unit
\* referenced by the member's open loans and open consultation Free, stamps
\* each of those records closed, empties the member's open loans and clears
\* the member's open consultation.
C3_DevolverTodos ==
    \A nif \in DOMAIN biblioteca.socios :
        ~SinNada(biblioteca.socios[nif]) =>
            LET socio == biblioteca.socios[nif]
                c == socio.recurso_en_consulta
                r == devolver_todos(biblioteca, nif)
            IN  /\ r.res = "ok"
                /\ \A k \in 1..Len(socio.ejemplares_prestados) :
                       LET p == socio.ejemplares_prestados[k]
                       IN  /\ ~Ocupada(r.b, UnidadDe(biblioteca.prestamos[p].id_recurso, FALSE))
                           /\ r.b.prestamos[p].fecha_devuelto # FechaNone
                /\ c # None =>
                       /\ ~Ocupada(r.b, UnidadDe(biblioteca.consultas[c].id_recurso, TRUE))
                       /\ r.b.consultas[c].hora_devolucion # None
                /\ r.b.socios[nif].ejemplares_prestados = <<>>
                /\ r.b.socios[nif].recurso_en_consulta = None

\* C4: the return of one open holding of a member (a loan of a book copy or
\* of a movie's loan copy, the consultation of a book copy, a magazine or a
\* movie's library copy) sets the unit the record references to Free,
\* leaves every other unit as it was, stamps the record closed and removes
\* it from the holder.
C4_Devolver ==
    \A nif \in DOMAIN biblioteca.socios :
        LET socio == biblioteca.socios[nif]
            n == Len(socio.ejemplares_prestados)
            c == socio.recurso_en_consulta
        IN  \A sel \in 1..(n + (IF c # None THEN 1 ELSE 0)) :
                LET r == devolver(biblioteca, nif, sel)
                    u == IF sel <= n
                         THEN UnidadDe(biblioteca.prestamos[
                                  socio.ejemplares_prestados[sel]].id_recurso, FALSE)
                         ELSE UnidadDe(biblioteca.consultas[c].id_recurso, TRUE)
                IN  /\ r.res # "fallo"
                    /\ ~Ocupada(r.b, u)
                    /\ \A v \in Unidades(biblioteca) \ {u} :
                           v \in Unidades(r.b) /\ Ocupada(r.b, v) = Ocupada(biblioteca, v)
                    /\ IF sel <= n
                       THEN LET p == socio.ejemplares_prestados[sel]
                            IN  /\ r.b.prestamos[p].fecha_devuelto # FechaNone
                                /\ \A k \in 1..Len(r.b.socios[nif].ejemplares_prestados) :
                                       r.b.socios[nif].ejemplares_prestados[k] # p
                       ELSE /\ r.b.consultas[c].hora_devolucion # None
                            /\ r.b.socios[nif].recurso_en_consulta = None

\* C5: from a book with exactly 2 Free copies and three members M, N, T
\* with no holdings: M's loan of the book succeeds with due date = request
\* date + 7; a second loan of the book by M fails with DuplicateHolding; N's
\* loan of the book then succeeds; T's loan of the book then fails with
\* NoCopyAvailable.
C5_DosEjemplares ==
    \A id \in DOMAIN biblioteca.libros :
        \A M \in DOMAIN biblioteca.socios, N \in DOMAIN biblioteca.socios,
           T \in DOMAIN biblioteca.socios :
            (/\ Cardinality({M, N, T}) = 3
             /\ Cardinality(Libres(biblioteca, id)) = 2
             /\ \A x \in {M, N, T} : SinNada(biblioteca.socios[x]))
            => LET t == biblioteca.libros[id].titulo
                   r1 == prestar(biblioteca, M, "libro", t, strftime(hoy))
                   r2 == prestar(r1.b, M, "libro", t, strftime(hoy))
                   r3 == prestar(r2.b, N, "libro", t, strftime(hoy))
                   r4 == prestar(r3.b, T, "libro", t, strftime(hoy))
               IN  /\ r1.res = "ok"
                   /\ r1.b.prestamos[r1.b.socios[M].ejemplares_prestados[1]]
                          .fecha_max_devolucion = strftime(hoy + 7)
                   /\ r2.res = "DuplicateHolding"
                   /\ r3.res = "ok"
                   /\ r4.res = "NoCopyAvailable"

\* C6: a loan of a book asked by a member who has fewer than 3 open loans
\* and no open loan on that book succeeds whenever the book has at least
\* one Free copy, and fails with NoCopyAvailable only when no copy is Free.
C6_UnEjemplarLibre ==
    \A nif \in DOMAIN biblioteca.socios, id \in DOMAIN biblioteca.libros :
        (/\ Len(biblioteca.socios[nif].ejemplares_prestados) < 3
         /\ ~YaTieneLibro(biblioteca, biblioteca.socios[nif], id))
        => LET r == prestar(biblioteca, nif, "libro", biblioteca.libros[id].titulo, strftime(hoy))
           IN  /\ Libres(biblioteca, id) # {} => r.res = "ok"
               /\ r.res = "NoCopyAvailable" => Libres(biblioteca, id) = {}

\* C7: no inventory unit is referenced by two open ledger records at once;
\* in particular a movie's loan copy is never referenced by two open loans.
C7_UnSoloRegistro ==
    \A u \in Unidades(biblioteca) : Cardinality(Abiertos(biblioteca, u)) <= 1

\* C8: in a step of the running program (not a start of the program, not a
\* fault) a Busy unit stays in the catalogue, and it becomes Free only if an
\* open record that references it is closed by that step.
C8_SoloDevolverLibera ==
    [][(ultima'.op # "iniciar" /\ ultima'.res # "fallo") =>
          \A u \in Unidades(biblioteca) :
              Ocupada(biblioteca, u) =>
                  /\ u \in Unidades(biblioteca')
                  /\ ~Ocupada(biblioteca', u) =>
                         \E a \in Abiertos(biblioteca, u) : a \notin Abiertos(biblioteca', u)]_vars

\* C9: for a movie with a library copy and a loan copy, both Free, and two
\* members A and B without holdings: A's consultation succeeds; while it is
\* open a loan of the movie by B succeeds and a consultation of the movie
\* by B fails with NoCopyAvailable; a consultation succeeds while the loan
\* copy is on loan; and once A has returned the consultation, a
\* consultation of the movie by B succeeds.
C9_PeliculaDosEjemplares ==
    \A id \in DOMAIN biblioteca.peliculas :
        \A A \in DOMAIN biblioteca.socios, B \in DOMAIN biblioteca.socios :
            (/\ A # B
             /\ SinNada(biblioteca.socios[A]) /\ SinNada(biblioteca.socios[B])
             /\ Unidad("C", id, 0) \in Unidades(biblioteca)
             /\ Unidad("P", id, 0) \in Unidades(biblioteca)
             /\ ~Ocupada(biblioteca, Unidad("C", id, 0))
             /\ ~Ocupada(biblioteca, Unidad("P", id, 0)))
            => LET t == biblioteca.peliculas[id].titulo
                   r1 == consultar(biblioteca, A, "pelicula", t, strftime(hoy))
                   r2 == prestar(r1.b, B, "pelicula", t, strftime(hoy))
                   r3 == consultar(r1.b, B, "pelicula", t, strftime(hoy))
                   r4 == consultar(prestar(biblioteca, B, "pelicula", t, strftime(hoy)).b,
                                   A, "pelicula", t, strftime(hoy))
                   r5 == devolver(r1.b, A, 1)
                   r6 == consultar(r5.b, B, "pelicula", t, strftime(hoy))
               IN  /\ r1.res = "ok"
                   /\ r2.res = "ok"
                   /\ r3.res = "NoCopyAvailable"
                   /\ r4.res = "ok"
                   /\ r5.res = "ok"
                   /\ r6.res = "ok"

\* C10: no member has two open loans that reference the same resource (the
\* same book or the same movie), and a loan asked by a member on a resource
\* the member already holds on open loan leaves the library as it was.
C10_SinDuplicados ==
    \A nif \in DOMAIN biblioteca.socios :
        LET rs == RecursosPrestados(biblioteca, nif)
        IN  /\ \A j \in 1..Len(rs), k \in 1..Len(rs) : j # k => rs[j] # rs[k]
            /\ \A k \in 1..Len(rs) :
                   LET t == IF rs[k][1] = "libro" THEN biblioteca.libros[rs[k][2]].titulo
                            ELSE biblioteca.peliculas[rs[k][2]].titulo
                       r == prestar(biblioteca, nif, rs[k][1], t, strftime(hoy))
                   IN  r.res # "ok" /\ r.b = biblioteca


\* C11: a loan asked with the national ID of a casual user always fails, and
\* no loan record, open or closed, names a casual user as its holder.
C11_OcasionalSinPrestamo ==
    \A nif \in DOMAIN biblioteca.ocasionales :
        /\ \A tipo \in {"libro", "revista", "pelicula"}, t \in {"F"} :
               prestar(biblioteca, nif, tipo, t, strftime(hoy)).res # "ok"
        /\ \A p \in DOMAIN biblioteca.prestamos : biblioteca.prestamos[p].nif # nif

\* C12: a national ID is never registered both as a member and as a casual
\* user.
C12_SocioUOcasional ==
    DOMAIN biblioteca.socios \cap DOMAIN biblioteca.ocasionales = {}

\* C19: each patron holds at most one open consultation record, and a
\* consultation asked by a patron whose record already carries one fails,
\* marks no unit and creates no record.
C19_UnaConsulta ==
    /\ \A nif \in DOMAIN biblioteca.socios \cup DOMAIN biblioteca.ocasionales :
           Cardinality({c \in ConsultasAbiertas(biblioteca) :
                            biblioteca.consultas[c].nif = nif}) <= 1
    /\ \A nif \in DOMAIN biblioteca.socios \cup DOMAIN biblioteca.ocasionales :
           (\/ (nif \in DOMAIN biblioteca.socios
                   /\ biblioteca.socios[nif].recurso_en_consulta # None)
            \/ (nif \in DOMAIN biblioteca.ocasionales
                   /\ biblioteca.ocasionales[nif].recurso_en_consulta # None))
           => \A tipo \in {"libro", "revista", "pelicula"}, t \in {"F"} :
                  LET r == consultar(biblioteca, nif, tipo, t, strftime(hoy))
                  IN  r.res = "AlreadyConsulting" /\ r.b = biblioteca

\* The renewals an operator can ask in the current state: member, position
\* of the open loan, answer to the override question, clock at midnight.
Renovaciones ==
    {x \in [nif : DOMAIN biblioteca.socios, sel : 1..MaxPrestados,
            saltar : BOOLEAN, medianoche : BOOLEAN] :
        x.sel <= Len(biblioteca.socios[x.nif].ejemplares_prestados)}

IdDe(x) == biblioteca.socios[x.nif].ejemplares_prestados[x.sel]

Antes(x) == biblioteca.prestamos[IdDe(x)]

Renueva(x) == renovar(biblioteca, x.nif, x.sel, x.saltar, x.medianoche)

Despues(x) == Renueva(x).b.prestamos[IdDe(x)]

\* C13: the renewal count of every loan record stays within 0..3; a
\* successful renewal adds exactly one to it; a renewal asked when the count
\* is 3 fails with RenewalLimitReached and changes neither the due date nor
\* the count.
C13_Renovaciones ==
    /\ \A p \in DOMAIN biblioteca.prestamos :
           biblioteca.prestamos[p].renovacion \in 0..3
    /\ \A x \in Renovaciones :
           /\ Renueva(x).res = "ok" => Despues(x).renovacion = Antes(x).renovacion + 1
           /\ Antes(x).renovacion = 3 =>
                  /\ Renueva(x).res = "RenewalLimitReached"
                  /\ Renueva(x).b = biblioteca

\* A fourth renewal has just been refused.
C13_CuartaRenovacion ==
    /\ ultima = Ultima("renovar", "", "RenewalLimitReached")
    /\ \E x \in Renovaciones : Antes(x).renovacion = 3

\* C14: the renewal of a loan whose due date is before today fails and
\* changes nothing, with LoanOverdue when the count is below 3 (the count is
\* tested first); a loan due today is not refused as overdue.
C14_FueraDePlazo ==
    \A x \in Renovaciones :
        /\ strptime(Antes(x).fecha_max_devolucion) < hoy =>
               /\ Renueva(x).b = biblioteca
               /\ Renueva(x).res \in {"LoanOverdue", "RenewalLimitReached"}
               /\ Antes(x).renovacion < 3 => Renueva(x).res = "LoanOverdue"
        /\ strptime(Antes(x).fecha_max_devolucion) = hoy =>
               Renueva(x).res # "LoanOverdue"

\* The renewal of an overdue loan has just been refused.
C14_RenovacionFueraDePlazo ==
    /\ ultima = Ultima("renovar", "", "LoanOverdue")
    /\ \E x \in Renovaciones :
           strptime(Antes(x).fecha_max_devolucion) < hoy /\ Antes(x).renovacion < 3

\* C15: for a loan that is not overdue and has renewals left, the renewal
\* fails with RenewalWindowNotOpen and changes nothing when the due date is
\* more than 3 days after today and no override is given, and succeeds
\* without override when the due date is at most 3 days after today.
C15_Ventana ==
    \A x \in Renovaciones :
        (Antes(x).renovacion < 3 /\ strptime(Antes(x).fecha_max_devolucion) >= hoy) =>
            /\ (strptime(Antes(x).fecha_max_devolucion) > hoy + 3 /\ ~x.saltar) =>
                   /\ Renueva(x).res = "RenewalWindowNotOpen"
                   /\ Renueva(x).b = biblioteca
            /\ strptime(Antes(x).fecha_max_devolucion) <= hoy + 3 =>
                   Renueva(x).res = "ok"

\* C16: a successful renewal sets the due date to the previous due date plus
\* 7 days for a book copy and to today plus 2 days for a movie, adds one to
\* the count, and changes nothing else in the record or in the library.
C16_NuevaFecha ==
    \A x \in Renovaciones :
        Renueva(x).res = "ok" =>
            /\ strptime(Despues(x).fecha_max_devolucion) =
                   IF Antes(x).id_recurso.tipo = "libro"
                   THEN strptime(Antes(x).fecha_max_devolucion) + 7
                   ELSE hoy + 2
            /\ Despues(x) = [Antes(x) EXCEPT
                                !.fecha_max_devolucion = Despues(x).fecha_max_devolucion,
                                !.renovacion = Despues(x).renovacion]
            /\ Renueva(x).b = [biblioteca EXCEPT !.prestamos[IdDe(x)] = Despues(x)]

\* A movie loan and a book loan have been renewed, the last step a renewal.
C16_PeliculaYLibroRenovados ==
    /\ ultima = Ultima("renovar", "", "ok")
    /\ \E p, q \in PrestamosAbiertos(biblioteca) :
           /\ biblioteca.prestamos[p].id_recurso.tipo = "pelicula"
           /\ biblioteca.prestamos[p].renovacion > 0
           /\ biblioteca.prestamos[q].id_recurso.tipo = "libro"
           /\ biblioteca.prestamos[q].renovacion > 0

\* The loans an operator can ask in the current state, each with the request
\* date it should carry: today's for the real date, the day typed for a
\* manual one.
Solicitudes ==
    {[nif |-> nif, tipo |-> tipo, dia |-> hoy,
      r |-> prestar(biblioteca, nif, tipo, "F", strftime(hoy))] :
        nif \in DOMAIN biblioteca.socios, tipo \in {"libro", "pelicula"}}
    \cup
    {[nif |-> nif, tipo |-> tipo, dia |-> Ordinal(f[3], f[2], f[1]),
      r |-> prestar_manual(biblioteca, nif, tipo, "F", f[1], f[2], f[3])] :
        nif \in DOMAIN biblioteca.socios, tipo \in {"libro", "pelicula"},
        f \in {g \in FechasManuales : g[1] <= DiasDelMes(g[3], g[2])}}

\* C17: every loan record created by a loan, of a book copy or of a movie,
\* with the real or a manually entered request date, has its due date 7
\* calendar days after the request date, no return date and renewal count
\* 0, and its id is appended to the member's open loans.
C17_RegistroNuevo ==
    \A x \in Solicitudes :
        x.r.res = "ok" =>
            \E id \in DOMAIN x.r.b.prestamos :
                /\ x.r.b.socios[x.nif].ejemplares_prestados =
                       Append(biblioteca.socios[x.nif].ejemplares_prestados, id)
                /\ x.r.b.prestamos[id].nif = x.nif
                /\ x.r.b.prestamos[id].id_recurso.tipo = x.tipo
                /\ strptime(x.r.b.prestamos[id].fecha_solicitud) = x.dia
                /\ strptime(x.r.b.prestamos[id].fecha_max_devolucion) = x.dia + 7
                /\ x.r.b.prestamos[id].fecha_devuelto = FechaNone
                /\ x.r.b.prestamos[id].renovacion = 0

\* A loan with a manual date and a loan with the real date are open, a book
\* and a movie, the last step a loan.
C17_PrestamoManualYReal ==
    /\ ultima = Ultima("prestar", "", "ok")
    /\ \E p, q \in PrestamosAbiertos(biblioteca) :
           /\ biblioteca.prestamos[p].fecha_solicitud # strftime(hoy)
           /\ biblioteca.prestamos[q].fecha_solicitud = strftime(hoy)
           /\ biblioteca.prestamos[p].id_recurso.tipo # biblioteca.prestamos[q].id_recurso.tipo

\* A date as stored: four digits, a hyphen, two digits, a hyphen, two digits.
FechaFija(s) ==
    /\ Len(s) = 10
    /\ s[5] = Guion /\ s[8] = Guion
    /\ \A i \in {1, 2, 3, 4, 6, 7, 9, 10} : s[i] \in Cero..(Cero + 9)

\* The single returns of a loan an operator can ask in the current state.
Devoluciones ==
    {x \in [nif : DOMAIN biblioteca.socios, sel : 1..MaxPrestados] :
        x.sel <= Len(biblioteca.socios[x.nif].ejemplares_prestados)}

Devuelve(x) == devolver(biblioteca, x.nif, x.sel)

Devuelto(x) == Devuelve(x).b.prestamos[IdDe(x)]

\* C18: a single return of a loan is reported overdue exactly when the
\* return date is after the due date and on time when it is on or before
\* it; every stored date is a fixed-width YYYY-MM-DD string, so that the
\* comparison of the strings agrees with the order of the days.
C18_FueraDePlazoSiiDespues ==
    /\ \A x \in Devoluciones :
           Devuelve(x).res # "fallo" =>
               /\ strptime(Devuelto(x).fecha_devuelto) = hoy
               /\ Devuelve(x).res = "fuera de plazo" <=>
                      strptime(Devuelto(x).fecha_devuelto)
                          > strptime(Devuelto(x).fecha_max_devolucion)
               /\ Devuelve(x).res = "a tiempo" <=>
                      strptime(Devuelto(x).fecha_devuelto)
                          <= strptime(Devuelto(x).fecha_max_devolucion)
    /\ \A p \in DOMAIN biblioteca.prestamos :
           /\ FechaFija(biblioteca.prestamos[p].fecha_solicitud)
           /\ FechaFija(biblioteca.prestamos[p].fecha_max_devolucion)
           /\ biblioteca.prestamos[p].fecha_devuelto # FechaNone =>
                  FechaFija(biblioteca.prestamos[p].fecha_devuelto)
    /\ \A p, q \in DOMAIN biblioteca.prestamos :
           CadenaMenor(biblioteca.prestamos[p].fecha_max_devolucion,
                       biblioteca.prestamos[q].fecha_solicitud)
               <=> strptime(biblioteca.prestamos[p].fecha_max_devolucion)
                       < strptime(biblioteca.prestamos[q].fecha_solicitud)

\* A loan has just been returned after its due date, and another was
\* returned on its due date.
C18_DevueltoTardeYATiempo ==
    /\ ultima = Ultima("devolver", "", "fuera de plazo")
    /\ \E p, q \in DOMAIN biblioteca.prestamos :
           /\ biblioteca.prestamos[p].fecha_devuelto = strftime(hoy)
           /\ CadenaMenor(biblioteca.prestamos[p].fecha_max_devolucion, strftime(hoy))
           /\ biblioteca.prestamos[q].fecha_devuelto
                  = biblioteca.prestamos[q].fecha_max_devolucion

\* A removal refused because of use: nothing changes.
Rechazada(r) == r.res = "ResourceInUse" /\ r.b = biblioteca

\* C20: removing a resource or one of its copies fails with ResourceInUse
\* and leaves the catalogue unchanged whenever a targeted copy or unit is
\* busy: selected book copies, all the copies of a book, a magazine, the
\* library copy or the loan copy of a movie, all the copies of a movie.
C20_EnUsoNoSeElimina ==
    /\ \A id \in DOMAIN biblioteca.libros, borrar \in BOOLEAN :
           /\ \A nro \in 1..MaxEjemplares :
                  Ocupada(biblioteca, Unidad("libro", id, nro)) =>
                      Rechazada(eliminar_ejemplares_libro(biblioteca, id, {nro}, borrar))
           /\ (\E u \in Unidades(biblioteca) :
                   u.clase = "libro" /\ u.id = id /\ Ocupada(biblioteca, u)) =>
                  Rechazada(eliminar_todos_libro(biblioteca, id, borrar))
    /\ \A id \in DOMAIN biblioteca.revistas :
           Ocupada(biblioteca, Unidad("revista", id, 0)) =>
               Rechazada(eliminar_revista(biblioteca, id))
    /\ \A id \in DOMAIN biblioteca.peliculas, borrar \in BOOLEAN :
           /\ \A clase \in {"C", "P"} :
                  Ocupada(biblioteca, Unidad(clase, id, 0)) =>
                      Rechazada(eliminar_pelicula(biblioteca, id, clase, borrar))
           /\ (\E clase \in {"C", "P"} : Ocupada(biblioteca, Unidad(clase, id, 0))) =>
                  Rechazada(eliminar_pelicula(biblioteca, id, "T", borrar))

\* C21: the removal of a member who has open loans or an open consultation
\* fails with PatronHasActiveHoldings and changes nothing; no open loan or
\* consultation record names a holder who is not registered.
C21_SocioConRecursos ==
    /\ \A nif \in DOMAIN biblioteca.socios :
           (\/ biblioteca.socios[nif].ejemplares_prestados # <<>>
            \/ biblioteca.socios[nif].recurso_en_consulta # None)
           => /\ eliminar_socio(biblioteca, nif).res = "PatronHasActiveHoldings"
              /\ eliminar_socio(biblioteca, nif).b = biblioteca
    /\ \A p \in PrestamosAbiertos(biblioteca) :
           biblioteca.prestamos[p].nif
               \in DOMAIN biblioteca.socios \cup DOMAIN biblioteca.ocasionales
    /\ \A c \in ConsultasAbiertas(biblioteca) :
           biblioteca.consultas[c].nif
               \in DOMAIN biblioteca.socios \cup DOMAIN biblioteca.ocasionales

\* The removal of a member with an open loan has just been refused, and
\* another member has been removed.
C21_EliminacionRechazada ==
    /\ ultima = Ultima("eliminar socio", "", "PatronHasActiveHoldings")
    /\ \E nif \in DOMAIN biblioteca.socios :
           biblioteca.socios[nif].ejemplares_prestados # <<>>
    /\ biblioteca.nro_socio > Cardinality(DOMAIN biblioteca.socios)

\* The copy numbers of book id in library b.
Numeros(b, id) ==
    {b.libros[id].ejemplares[i].nro_ejemplar : i \in 1..Len(b.libros[id].ejemplares)}

\* C22: the copy numbers of every book are strictly increasing in creation
\* order, and copies added after some copies were removed never get a
\* number the book had assigned before (the highest-numbered copy included).
C22_NumerosNoReutilizados ==
    \A id \in DOMAIN biblioteca.libros :
        /\ \A i, j \in 1..Len(biblioteca.libros[id].ejemplares) :
               i < j => biblioteca.libros[id].ejemplares[i].nro_ejemplar
                            < biblioteca.libros[id].ejemplares[j].nro_ejemplar
        /\ \A sel \in SUBSET Numeros(biblioteca, id), n \in 1..MaxEjemplares :
               LET r1 == eliminar_ejemplares_libro(biblioteca, id, sel, FALSE)
                   r2 == configurar_libro(r1.b, biblioteca.libros[id].titulo, n)
               IN  (sel # {} /\ r1.res = "ok" /\ r2.res = "ok") =>
                       (Numeros(r2.b, id) \ Numeros(r1.b, id))
                           \cap Numeros(biblioteca, id) = {}

\* The six sequence counters.
Contadores ==
    {"nro_prestamo", "nro_consulta", "nro_socio",
     "nro_id_libro", "nro_id_revista", "nro_id_pelicula"}

\* C23: no sequence counter of the running program ever decreases, whatever
\* is deleted and across a start of the program from the saved file, so an
\* id once generated is never generated again.
C23_ContadoresCrecen ==
    [][(Vivo /\ ultima'.res # "fallo") =>
           \A k \in Contadores : biblioteca'[k] >= biblioteca[k]]_vars

\* C24: in every state the running program reaches, saving and then loading
\* yields the same state (catalogue, copies and their states, members and
\* casual users with their holdings, both ledgers and the six counters), so
\* every operation behaves on the loaded state as on the saved one.
C24_GuardarYCargar ==
    Vivo => /\ cargar_datos(guardar_datos(biblioteca)).res = "ok"
            /\ cargar_datos(guardar_datos(biblioteca)).b = biblioteca

\* C25: whenever the program is at a menu, the saved file holds the state in
\* memory: every operation that changed the state has saved it before it
\* returned, the removal of book copies or movie copies after which the
\* resource itself is kept included.
C25_GuardadoEnElMenu ==
    Vivo => datos_json = guardar_datos(biblioteca)

\* The records of a ledger of b are all in the same ledger of c, each with
\* the holder and the resource reference it has in b.
RegistrosConservados(b, c) ==
    /\ \A id \in DOMAIN b.prestamos :
           /\ id \in DOMAIN c.prestamos
           /\ c.prestamos[id].nif = b.prestamos[id].nif
           /\ c.prestamos[id].id_recurso = b.prestamos[id].id_recurso
    /\ \A id \in DOMAIN b.consultas :
           /\ id \in DOMAIN c.consultas
           /\ c.consultas[id].nif = b.consultas[id].nif
           /\ c.consultas[id].id_recurso = b.consultas[id].id_recurso

\* C26: no step of the running program removes a record from the loan or
\* the consultation ledger or changes its holder or its resource reference,
\* whatever return, renewal, member deletion or resource deletion it is,
\* and a start of the program from the saved file finds every record again.
C26_RegistrosPermanentes ==
    [][(Vivo /\ ultima'.res # "fallo") => RegistrosConservados(biblioteca, biblioteca')]_vars

\* C26: a returned loan whose holder has been removed from the registry and
\* whose movie has lost its loan copy is still in the ledger.
C26_RegistroSinSocioNiEjemplar ==
    /\ Vivo
    /\ \E id \in DOMAIN biblioteca.prestamos :
           /\ biblioteca.prestamos[id].nif \notin DOMAIN biblioteca.socios
           /\ biblioteca.prestamos[id].renovacion > 0
           /\ biblioteca.prestamos[id].fecha_devuelto # FechaNone
           /\ biblioteca.prestamos[id].id_recurso.tipo = "pelicula"
           /\ biblioteca.prestamos[id].id_recurso.id \in DOMAIN biblioteca.peliculas
           /\ \A i \in 1..Len(biblioteca.peliculas[biblioteca.prestamos[id].id_recurso.id].ejemplares) :
                  biblioteca.peliculas[biblioteca.prestamos[id].id_recurso.id].ejemplares[i].tipo # "P"
    /\ \E id \in DOMAIN biblioteca.consultas :
           biblioteca.consultas[id].nif \notin DOMAIN biblioteca.socios

\* The positions of the copies of movie id that have the role tipo ("C" the
\* library copy, "P" the loan copy).
EjemplaresDeTipo(b, id, tipo) ==
    {i \in 1..Len(b.peliculas[id].ejemplares) : b.peliculas[id].ejemplares[i].tipo = tipo}

\* C27: every movie has at most two copies, at most one library copy and at
\* most one loan copy, whatever creations, additions of copies and removals
\* of copies have happened.
C27_DosEjemplares ==
    \A id \in DOMAIN biblioteca.peliculas :
        /\ Len(biblioteca.peliculas[id].ejemplares) <= MaxEjemplaresPelicula
        /\ Cardinality(EjemplaresDeTipo(biblioteca, id, "C")) <= 1
        /\ Cardinality(EjemplaresDeTipo(biblioteca, id, "P")) <= 1

\* C27: a library copy has just been added to a movie that had lost it and
\* whose loan copy is on loan.
C27_EjemplarRepuesto ==
    /\ ultima = Ultima("configurar pelicula", "", "ok")
    /\ \E id \in DOMAIN biblioteca.peliculas :
           /\ Len(biblioteca.peliculas[id].ejemplares) = 2
           /\ biblioteca.peliculas[id].ejemplares[1] = PeliculaBiblioteca
           /\ biblioteca.peliculas[id].ejemplares[2].tipo = "P"
           /\ biblioteca.peliculas[id].ejemplares[2].estado

\* C28: no operation ends in an unhandled fault: each one completes or is
\* refused and the program is back at a menu (a consultation asked with a
\* national id nobody is registered under, the addition of copies to a movie
\* left with no copies and the return of a movie after one of its copies was
\* removed included).
C28_SinFallos ==
    ultima.res # "fallo"

\* C29: a consultation asked with a valid national id that belongs to no
\* member and no casual user registers a casual user under that id and goes
\* on to open the consultation of an available resource for that user.
C29_OcasionalNuevo ==
    \A tipo \in {"libro", "revista", "pelicula"} :
        LET r == consultar(biblioteca, "x", tipo, "F", strftime(hoy))
        IN  (/\ Vivo
             /\ "x" \notin DOMAIN biblioteca.socios \cup DOMAIN biblioteca.ocasionales
             /\ encontrar_recurso(biblioteca, tipo, "F") # None
             /\ comprobar_estado_recurso(biblioteca, tipo,
                                         encontrar_recurso(biblioteca, tipo, "F"), TRUE) # 0)
            => /\ r.res = "ok"
               /\ "x" \in DOMAIN r.b.ocasionales
               /\ r.b.ocasionales["x"].recurso_en_consulta # None

\* C30: magazines are never loaned: the loan menu refuses a magazine and
\* changes nothing, no record of the loan ledger refers to a magazine, and
\* a magazine becomes busy only by a consultation being opened.
C30_RevistaSinPrestamo ==
    [][/\ \A id \in DOMAIN biblioteca'.prestamos :
              biblioteca'.prestamos[id].id_recurso.tipo # "revista"
       /\ \A nif \in DOMAIN biblioteca.socios, id \in DOMAIN biblioteca.revistas :
              prestar(biblioteca, nif, "revista", biblioteca.revistas[id].nombre,
                      strftime(hoy)).b = biblioteca
       /\ \A id \in DOMAIN biblioteca.revistas \cap DOMAIN biblioteca'.revistas :
              (~biblioteca.revistas[id].estado_consulta
                   /\ biblioteca'.revistas[id].estado_consulta)
                  => ultima' = Ultima("consultar", "", "ok")]_vars

\* C30: a member below the quota has asked for the loan of a magazine that
\* is free, and has been refused.
C30_RevistaPedida ==
    /\ ultima = Ultima("prestar", "", "InvalidInput")
    /\ \E id \in DOMAIN biblioteca.revistas : ~biblioteca.revistas[id].estado_consulta
    /\ \E nif \in DOMAIN biblioteca.socios :
           Len(biblioteca.socios[nif].ejemplares_prestados) < MaxPrestados

\* The state after Biblioteca(): nothing in the catalogue, the registry or
\* the ledgers, and the six counters at 0.
Vacia(b) ==
    /\ b.libros = <<>> /\ b.revistas = <<>> /\ b.peliculas = <<>>
    /\ b.prestamos = <<>> /\ b.consultas = <<>>
    /\ b.socios = <<>> /\ b.ocasionales = <<>>
    /\ \A k \in Contadores : b[k] = 0

\* C31: a start of the program that finds no datos.json, or a datos.json
\* that is not a JSON document, leaves the library empty and goes on to the
\* main menu.
C31_ArranqueVacio ==
    (~datos_json.existe \/ datos_json.contenido # "json")
        => /\ cargar_datos(datos_json).res = "ok"
           /\ Vacia(cargar_datos(datos_json).b)

\* C32: a loan that is asked for and not registered (quota reached, book
\* already held, no copy available, date entry cancelled) leaves every copy
\* state, the open loans of every member and the loan ledger as they were.
C32_PrestamoFallidoSinEfecto ==
    [][(Vivo /\ ultima'.op = "prestar" /\ ultima'.res \notin {"ok", "fallo"})
           => /\ biblioteca'.libros = biblioteca.libros
              /\ biblioteca'.peliculas = biblioteca.peliculas
              /\ biblioteca'.revistas = biblioteca.revistas
              /\ biblioteca'.socios = biblioteca.socios
              /\ biblioteca'.prestamos = biblioteca.prestamos]_vars

\* The catalogue of b with the unit a consultation of resource id has to
\* take marked (hay): the first free copy of the book in list order, the
\* magazine, or the free library copy of the movie; the catalogue as it is
\* when there is no such unit.
ConUnidadEnConsulta(b, tipo, id) ==
    LET sin == [hay |-> FALSE, libros |-> b.libros, revistas |-> b.revistas,
                peliculas |-> b.peliculas, ref |-> RefRevista(None)]
    IN  IF tipo = "libro"
        THEN LET ejs == b.libros[id].ejemplares
                 libres == {i \in 1..Len(ejs) : ejs[i].estado_accion = ""}
                 p == CHOOSE i \in libres : \A j \in libres : i <= j
             IN  IF libres = {} THEN sin
                 ELSE [sin EXCEPT !.hay = TRUE,
                                  !.libros[id].ejemplares[p].estado_accion = "Consulta",
                                  !.ref = RefLibro(id, ejs[p].nro_ejemplar)]
        ELSE IF tipo = "revista"
        THEN IF b.revistas[id].estado_consulta THEN sin
             ELSE [sin EXCEPT !.hay = TRUE, !.revistas[id].estado_consulta = TRUE,
                              !.ref = RefRevista(id)]
        ELSE LET ejs == b.peliculas[id].ejemplares
                 locales == {i \in 1..Len(ejs) : ejs[i].tipo = "C" /\ ~ejs[i].estado}
                 p == CHOOSE i \in locales : TRUE
             IN  IF locales = {} THEN sin
                 ELSE [sin EXCEPT !.hay = TRUE, !.peliculas[id].ejemplares[p].estado = TRUE,
                                  !.ref = RefPelicula(id)]

\* C33: asked by a registered patron with no open consultation for a
\* resource of the catalogue, a consultation is opened exactly when the
\* resource has an eligible unit (a free copy of the book, the magazine not
\* in consultation, the movie's library copy not in use); it then marks that
\* unit and no other, adds one record for it under a new id and sets the
\* patron's open consultation to that id.
C33_UnidadDeConsulta ==
    \A nif \in DOMAIN biblioteca.socios \cup DOMAIN biblioteca.ocasionales :
    \A tipo \in {"libro", "revista", "pelicula"} :
        LET u == IF nif \in DOMAIN biblioteca.socios THEN biblioteca.socios[nif]
                 ELSE biblioteca.ocasionales[nif]
            id == encontrar_recurso(biblioteca, tipo, "F")
            r == consultar(biblioteca, nif, tipo, "F", strftime(hoy))
            c == ConUnidadEnConsulta(biblioteca, tipo, id)
            n == r.b.nro_consulta
            v == IF nif \in DOMAIN r.b.socios THEN r.b.socios[nif] ELSE r.b.ocasionales[nif]
        IN  (Vivo /\ u.recurso_en_consulta = None /\ id # None)
            => /\ r.res = "ok" <=> c.hay
               /\ r.res # "ok" => r.b = biblioteca
               /\ r.res = "ok" =>
                      /\ r.b.libros = c.libros
                      /\ r.b.revistas = c.revistas
                      /\ r.b.peliculas = c.peliculas
                      /\ n \notin DOMAIN biblioteca.consultas
                      /\ DOMAIN r.b.consultas = DOMAIN biblioteca.consultas \cup {n}
                      /\ r.b.consultas[n].nif = nif
                      /\ r.b.consultas[n].id_recurso = c.ref
                      /\ r.b.consultas[n].hora_devolucion = None
                      /\ v.recurso_en_consulta = n

\* C33: a consultation has just taken the first copy of a book whose second
\* copy is on loan, while the library copy of a movie is gone.
C33_ConsultaDelPrimerLibre ==
    /\ ultima = Ultima("consultar", "", "ok")
    /\ \E id \in DOMAIN biblioteca.libros :
           /\ Len(biblioteca.libros[id].ejemplares) = 2
           /\ biblioteca.libros[id].ejemplares[1].estado_accion = "Consulta"
           /\ biblioteca.libros[id].ejemplares[2].estado_accion = "Prestamo"
    /\ \E id \in DOMAIN biblioteca.peliculas :
           EjemplaresDeTipo(biblioteca, id, "C") = {}

\* The positions of the free copies of book id, in list order.
PosicionesLibres(b, id) ==
    {i \in 1..Len(b.libros[id].ejemplares) : b.libros[id].ejemplares[i].estado_accion = ""}

C35_FechaNoRetrocede ==
    [][(Vivo /\ ultima' = Ultima("renovar", "", "ok"))
           => \A id \in DOMAIN biblioteca.prestamos :
                  strptime(biblioteca'.prestamos[id].fecha_max_devolucion)
                      >= strptime(biblioteca.prestamos[id].fecha_max_devolucion)]_vars

\* The places <<nif, k>> where loan id stands in a member's list of open
\* loans.
EnListas(b, id) ==
    {par \in {<<nif, k>> : nif \in DOMAIN b.socios, k \in 1..MaxPrestados} :
        /\ par[2] <= Len(b.socios[par[1]].ejemplares_prestados)
        /\ b.socios[par[1]].ejemplares_prestados[par[2]] = id}

\* The patrons (members "S", casual users "O") whose open consultation is id.
EnConsultaDe(b, id) ==
    {<<"S", nif>> : nif \in {n \in DOMAIN b.socios : b.socios[n].recurso_en_consulta = id}}
        \cup {<<"O", nif>> : nif \in {n \in DOMAIN b.ocasionales :
                                          b.ocasionales[n].recurso_en_consulta = id}}

\* C36: a loan record has no return date exactly when its id stands once in
\* the open loans of one member, the record's holder, and a returned loan is
\* in no list; a consultation record has no closing time exactly when it is
\* the open consultation of one patron, its holder, and a closed one is
\* nobody's.
C36_AbiertoSiiEnPoder ==
    Vivo =>
        /\ \A id \in DOMAIN biblioteca.prestamos :
               IF biblioteca.prestamos[id].fecha_devuelto = FechaNone
               THEN /\ Cardinality(EnListas(biblioteca, id)) = 1
                    /\ \A par \in EnListas(biblioteca, id) :
                           par[1] = biblioteca.prestamos[id].nif
               ELSE EnListas(biblioteca, id) = {}
        /\ \A id \in DOMAIN biblioteca.consultas :
               IF biblioteca.consultas[id].hora_devolucion = None
               THEN /\ Cardinality(EnConsultaDe(biblioteca, id)) = 1
                    /\ \A par \in EnConsultaDe(biblioteca, id) :
                           par[2] = biblioteca.consultas[id].nif
               ELSE EnConsultaDe(biblioteca, id) = {}
        /\ \A nif \in DOMAIN biblioteca.socios :
               /\ \A k \in 1..Len(biblioteca.socios[nif].ejemplares_prestados) :
                      biblioteca.socios[nif].ejemplares_prestados[k]
                          \in DOMAIN biblioteca.prestamos
               /\ biblioteca.socios[nif].recurso_en_consulta # None =>
                      biblioteca.socios[nif].recurso_en_consulta \in DOMAIN biblioteca.consultas

\* C36: a bulk return has just closed the loan and the consultation of a
\* member, who holds nothing any more.
C36_CerradosYAbiertos ==
    /\ ultima = Ultima("devolver todos", "", "ok")
    /\ \E id \in DOMAIN biblioteca.prestamos, c \in DOMAIN biblioteca.consultas :
           /\ biblioteca.prestamos[id].fecha_devuelto # FechaNone
           /\ biblioteca.consultas[c].hora_devolucion # None
           /\ biblioteca.consultas[c].nif = biblioteca.prestamos[id].nif
           /\ biblioteca.prestamos[id].nif \in DOMAIN biblioteca.socios
           /\ SinNada(biblioteca.socios[biblioteca.prestamos[id].nif])

\* C37: every open movie holding can be returned: the single return of a
\* member's open movie loan succeeds and leaves the movie's loan copy free,
\* and the return of an open movie consultation by its holder, member or
\* casual user, succeeds and leaves the movie's library copy free, whatever
\* copies the movie has and wherever they stand in its list.
C37_PeliculaDevolvible ==
    Vivo =>
        /\ \A nif \in DOMAIN biblioteca.socios :
           \A sel \in 1..Len(biblioteca.socios[nif].ejemplares_prestados) :
               LET ref == biblioteca.prestamos[
                              biblioteca.socios[nif].ejemplares_prestados[sel]].id_recurso
                   r == devolver(biblioteca, nif, sel)
               IN  ref.tipo = "pelicula" =>
                       /\ r.res \in {"a tiempo", "fuera de plazo"}
                       /\ \A i \in EjemplaresDeTipo(r.b, ref.id, "P") :
                              ~r.b.peliculas[ref.id].ejemplares[i].estado
        /\ \A nif \in DOMAIN biblioteca.socios :
               LET c == biblioteca.socios[nif].recurso_en_consulta
                   ref == biblioteca.consultas[c].id_recurso
                   r == devolver(biblioteca, nif,
                                 Len(biblioteca.socios[nif].ejemplares_prestados) + 1)
               IN  (c # None /\ ref.tipo = "pelicula") =>
                       /\ r.res = "ok"
                       /\ \A i \in EjemplaresDeTipo(r.b, ref.id, "C") :
                              ~r.b.peliculas[ref.id].ejemplares[i].estado
        /\ \A nif \in DOMAIN biblioteca.ocasionales \ DOMAIN biblioteca.socios :
               LET c == biblioteca.ocasionales[nif].recurso_en_consulta
                   ref == biblioteca.consultas[c].id_recurso
                   r == eliminar_consulta(biblioteca, nif)
               IN  (c # None /\ ref.tipo = "pelicula") =>
                       /\ r.res = "ok"
                       /\ \A i \in EjemplaresDeTipo(r.b, ref.id, "C") :
                              ~r.b.peliculas[ref.id].ejemplares[i].estado

\* No two books, no two magazines and no two movies of b have the same
\* natural key.
ClavesUnicas(b) ==
    /\ \A i, j \in DOMAIN b.libros : b.libros[i].titulo = b.libros[j].titulo => i = j
    /\ \A i, j \in DOMAIN b.revistas : b.revistas[i].nombre = b.revistas[j].nombre => i = j
    /\ \A i, j \in DOMAIN b.peliculas :
           b.peliculas[i].titulo = b.peliculas[j].titulo => i = j

\* C38: the catalogue never holds two resources of a kind with the same
\* natural key: configuring a resource whose key exists creates no resource
\* and consumes no id, and configuring one whose key is new creates one
\* resource under the next id.
C38_ClavesUnicas ==
    Vivo =>
        /\ ClavesUnicas(biblioteca)
        /\ \A t \in {"F", "G"} :
               /\ \A n \in 1..MaxEjemplares :
                      LET r == configurar_libro(biblioteca, t, n)
                      IN  r.res # "fallo" =>
                              /\ ClavesUnicas(r.b)
                              /\ IF \E i \in DOMAIN biblioteca.libros :
                                        biblioteca.libros[i].titulo = t
                                 THEN /\ DOMAIN r.b.libros = DOMAIN biblioteca.libros
                                      /\ r.b.nro_id_libro = biblioteca.nro_id_libro
                                 ELSE /\ DOMAIN r.b.libros =
                                             DOMAIN biblioteca.libros \cup {r.b.nro_id_libro}
                                      /\ r.b.nro_id_libro = biblioteca.nro_id_libro + 1
               /\ LET r == configurar_revista(biblioteca, t)
                  IN  /\ ClavesUnicas(r.b)
                      /\ IF \E i \in DOMAIN biblioteca.revistas :
                                biblioteca.revistas[i].nombre = t
                         THEN r.b = biblioteca
                         ELSE /\ DOMAIN r.b.revistas =
                                     DOMAIN biblioteca.revistas \cup {r.b.nro_id_revista}
                              /\ r.b.nro_id_revista = biblioteca.nro_id_revista + 1
               /\ \A n \in 1..MaxEjemplaresPelicula :
                      LET r == configurar_pelicula(biblioteca, t, n)
                      IN  r.res # "fallo" =>
                              /\ ClavesUnicas(r.b)
                              /\ IF \E i \in DOMAIN biblioteca.peliculas :
                                        biblioteca.peliculas[i].titulo = t
                                 THEN /\ DOMAIN r.b.peliculas = DOMAIN biblioteca.peliculas
                                      /\ r.b.nro_id_pelicula = biblioteca.nro_id_pelicula
                                 ELSE /\ DOMAIN r.b.peliculas =
                                             DOMAIN biblioteca.peliculas \cup {r.b.nro_id_pelicula}
                                      /\ r.b.nro_id_pelicula = biblioteca.nro_id_pelicula + 1

\* C38: copies have just been added to a book that exists (its first copy
\* is not copy 1), next to a magazine and a movie, and one id of each kind
\* has been consumed.
C38_EjemplaresAnadidos ==
    /\ ultima = Ultima("configurar libro", "", "ok")
    /\ \E id \in DOMAIN biblioteca.libros :
           biblioteca.libros[id].ejemplares[1].nro_ejemplar > 1
    /\ biblioteca.revistas # <<>> /\ biblioteca.peliculas # <<>>
    /\ biblioteca.nro_id_libro = 1
    /\ biblioteca.nro_id_revista = 1
    /\ biblioteca.nro_id_pelicula = 1

\* C39: a patron with no open consultation has no consultation request date
\* and no request time either: closing a consultation clears the three
\* fields, for a member (single and bulk return) and for a casual user.
C39_CamposDeConsulta ==
    Vivo =>
        /\ \A nif \in DOMAIN biblioteca.socios :
               biblioteca.socios[nif].recurso_en_consulta = None =>
                   /\ biblioteca.socios[nif].fecha_solicitud_consulta = FechaNone
                   /\ biblioteca.socios[nif].hora_solicitud_consulta = None
        /\ \A nif \in DOMAIN biblioteca.ocasionales :
               biblioteca.ocasionales[nif].recurso_en_consulta = None =>
                   /\ biblioteca.ocasionales[nif].fecha_solicitud_consulta = FechaNone
                   /\ biblioteca.ocasionales[nif].hora_solicitud_consulta = None
====
